-------------------------- MODULE GatewayPipeProofs --------------------------
(***************************************************************************)
(* Proofs about GatewayPipe, for any lengths of the channels and rings and *)
(* any traffic.                                                            *)
(***************************************************************************)
EXTENDS GatewayPipe, SequenceTheorems, TLAPS

Messages == [type : {"call", "answer", "bad"}, id : Nat, of : Nat]
Sends == [to : {"csTx", "csmsTx"}, msg : Messages]
Stations == [open : BOOLEAN, reads : BOOLEAN, calls : Nat, repeats : Nat,
             asked : SUBSET Nat, answered : SUBSET Nat, answers : Seq(Nat), errors : Nat]
Managers == [calls : Nat, asked : SUBSET Nat, answered : SUBSET Nat,
             results : Seq(Messages), lost : SUBSET Messages]

\* A channel of capacity one.
Slot(S) == {<<>>} \union {<<m>> : m \in S}

Types ==
    /\ wire \in Seq(Messages)
    /\ csRx \in Slot(Messages) /\ csTx \in Slot(Messages) /\ csmsTx \in Slot(Messages)
    /\ csmsRx \in Seq(Messages) /\ Len(csmsRx) <= CSMSMessageQueueLen
    /\ callBuf \in Seq(Messages) /\ Len(callBuf) <= CSMSCallQueueLen
    /\ status \in {"Waiting", "ChargeStationCall", "CSMSCall"}
    /\ look \in {"first", "any"}
    /\ pending \in Slot(Sends)
    /\ ids \in Seq(Nat) /\ Len(ids) <= MessageIdBufferLen
    /\ calls \in Seq(Messages) /\ Len(calls) <= CSMSCallResponseBufferLen
    /\ running \subseteq Goroutines /\ halt \in BOOLEAN
    /\ station \in Stations
    /\ manager \in Managers

\* The id of the station's call that the pipe forwarded last.
LastOf(q) == IF q = <<>> THEN 0 ELSE q[Len(q)]
LastId == LastOf(ids)

\* The station's calls come in the order of their ids: on the wire, before them
\* the one the reader has handed over, and before that the one forwarded last.
Between(i) == LastId <= i /\ i <= station.calls

CallOrder ==
    /\ Between(LastId)
    /\ \A k \in 1..Len(wire) : wire[k].type = "call" =>
         /\ Between(wire[k].id)
         /\ \A j \in 1..Len(wire) : j < k /\ wire[j].type = "call" => wire[j].id <= wire[k].id
    /\ csRx # <<>> /\ csRx[1].type = "call" =>
         /\ Between(csRx[1].id)
         /\ \A k \in 1..Len(wire) : wire[k].type = "call" => csRx[1].id <= wire[k].id

\* An answer i of the manager has passed the pipe: it is in the send the pipe is
\* at, in the channel to the writer, or with the station.
InSend(i) == /\ pending # <<>> /\ pending[1].to = "csTx"
             /\ pending[1].msg.type = "answer" /\ pending[1].msg.id = i
InTx(i) == csTx # <<>> /\ csTx[1].type = "answer" /\ csTx[1].id = i
AtStation(i) == \E k \in 1..Len(station.answers) : station.answers[k] = i
Passed(i) == InSend(i) \/ InTx(i) \/ AtStation(i)

\* The manager answers a call once: what has passed will not come again.
AnsweredOnce ==
    /\ \A k \in 1..Len(csmsRx) : csmsRx[k].type = "answer" =>
         /\ csmsRx[k].id \in manager.answered
         /\ ~Passed(csmsRx[k].id)
         /\ \A j \in 1..Len(csmsRx) :
              csmsRx[j].type = "answer" /\ csmsRx[j].id = csmsRx[k].id => j = k
    /\ \A i \in Nat : Passed(i) => i <= LastId /\ i \in manager.answered

\* What has passed is in the order of the station's calls.
PassedInOrder ==
    /\ \A j, k \in 1..Len(station.answers) :
         j < k => station.answers[j] < station.answers[k]
    /\ \A i, j \in Nat : InTx(i) /\ AtStation(j) => j < i
    /\ \A i, j \in Nat : InSend(i) /\ (InTx(j) \/ AtStation(j)) => j < i

\* Calls of the manager carry their own request, wherever they are.
OwnRequest(q) == \A k \in 1..Len(q) : q[k].type = "call" => q[k].of = q[k].id

\* Answers on their way from the station were sent by it; those that have passed
\* the pipe carry the request of the call they answer.
Genuine(q) == \A k \in 1..Len(q) : q[k].type = "answer" => q[k].id \in station.answered
Carries(m) == m.type # "call" => m.of = m.id /\ m.id \in station.answered

RequestInv ==
    /\ OwnRequest(csmsRx) /\ OwnRequest(callBuf) /\ OwnRequest(calls)
    /\ \A k \in 1..Len(callBuf) : callBuf[k].type = "call"
    /\ \A k \in 1..Len(calls) : calls[k].type = "call"
    /\ Genuine(wire) /\ Genuine(csRx)
    /\ \A k \in 1..Len(wire) : wire[k].type = "bad" => wire[k] \in {Bad, Short}
    /\ csRx # <<>> => csRx[1].type # "bad"
    /\ pending # <<>> /\ pending[1].to = "csmsTx" => Carries(pending[1].msg)
    /\ csmsTx # <<>> => Carries(csmsTx[1])
    /\ \A k \in 1..Len(manager.results) :
         LET r == manager.results[k] IN r.of = r.id /\ r.id \in station.answered

IInv == Types /\ CallOrder /\ AnsweredOnce /\ PassedInOrder /\ RequestInv

-----------------------------------------------------------------------------
(* Sequences, channels of capacity one, and rings *)

LEMMA AppendFacts ==
  ASSUME NEW S, NEW q \in Seq(S), NEW e \in S
  PROVE  /\ Append(q, e) \in Seq(S) /\ Len(q) \in Nat
         /\ Len(Append(q, e)) = Len(q) + 1
         /\ \A k \in 1..Len(q) : Append(q, e)[k] = q[k]
         /\ Append(q, e)[Len(q) + 1] = e
BY AppendProperties, LenProperties

LEMMA TailFacts ==
  ASSUME NEW S, NEW q \in Seq(S), q # <<>>
  PROVE  /\ Head(q) = q[1] /\ Head(q) \in S
         /\ Len(q) \in Nat /\ Len(q) > 0
         /\ Tail(q) \in Seq(S)
         /\ Len(Tail(q)) = Len(q) - 1
         /\ \A k \in 1..(Len(q) - 1) : Tail(q)[k] = q[k + 1]
BY HeadTailProperties, EmptySeq, LenProperties

LEMMA SlotFacts ==
  ASSUME NEW S, NEW q \in Slot(S), q # <<>>
  PROVE  q[1] \in S /\ Head(q) = q[1] /\ Len(q) = 1
BY DEF Slot

LEMMA SlotLen ==
  ASSUME NEW S, NEW q \in Slot(S)
  PROVE  Len(q) <= 1
<1>1. CASE q = <<>>
  BY <1>1
<1>2. CASE q # <<>>
  BY <1>2, SlotFacts
<1> QED
  BY <1>1, <1>2

LEMMA SlotOf ==
  ASSUME NEW S, NEW m \in S
  PROVE  <<m>> \in Slot(S) /\ <<>> \in Slot(S) /\ <<m>>[1] = m /\ <<m>> # <<>>
BY DEF Slot

\* A ring never outgrows its length, and holds the new value and old ones.
LEMMA RingFacts ==
  ASSUME NEW S, NEW ring \in Seq(S), NEW v \in S, NEW n \in Nat \ {0}, Len(ring) <= n
  PROVE  /\ Ring(n, ring, v) \in Seq(S) /\ Len(Ring(n, ring, v)) <= n
         /\ Ring(n, ring, v) # <<>>
         /\ Ring(n, ring, v)[Len(Ring(n, ring, v))] = v
         /\ \A k \in 1..Len(Ring(n, ring, v)) :
              \/ Ring(n, ring, v)[k] = v
              \/ \E j \in 1..Len(ring) : Ring(n, ring, v)[k] = ring[j]
<1>1. Len(ring) \in Nat
  BY LenProperties
<1>2. CASE Len(ring) < n
  <2>1. Ring(n, ring, v) = Append(ring, v)
    BY <1>2 DEF Ring
  <2>2. Append(ring, v) # <<>>
    BY AppendFacts, <1>1
  <2> QED
    BY <1>1, <1>2, <2>1, <2>2, AppendFacts
<1>3. CASE ~(Len(ring) < n)
  <2>1. ring # <<>> /\ Ring(n, ring, v) = Append(Tail(ring), v)
    BY <1>1, <1>3 DEF Ring
  <2>2. PICK t : t = Tail(ring)
    OBVIOUS
  <2>3. /\ t \in Seq(S) /\ Len(t) = Len(ring) - 1 /\ Len(t) \in Nat
        /\ \A k \in 1..Len(t) : k + 1 \in 1..Len(ring) /\ t[k] = ring[k + 1]
    BY <1>1, <2>1, <2>2, TailFacts
  <2>4. /\ Append(t, v) \in Seq(S) /\ Len(Append(t, v)) = Len(ring)
        /\ \A k \in 1..Len(t) : Append(t, v)[k] = t[k]
        /\ Append(t, v)[Len(t) + 1] = v
    BY <1>1, <2>3, AppendFacts
  <2>5. Append(t, v) # <<>>
    BY <1>1, <2>3, <2>4
  <2>6. \A k \in 1..Len(ring) : k \in 1..Len(t) \/ k = Len(t) + 1
    BY <1>1, <2>3
  <2>7. PICK r : r = Append(t, v)
    OBVIOUS
  <2>8. \A k \in 1..Len(r) : r[k] = v \/ \E j \in 1..Len(ring) : r[k] = ring[j]
    BY <2>3, <2>4, <2>6, <2>7
  <2>9. r \in Seq(S) /\ Len(r) <= n /\ r # <<>> /\ r[Len(r)] = v
    BY <1>1, <2>3, <2>4, <2>5, <2>7
  <2>10. Ring(n, ring, v) = r
    BY <2>1, <2>2, <2>7
  <2> QED
    BY <2>8, <2>9, <2>10
<1> QED
  BY <1>2, <1>3

-----------------------------------------------------------------------------
(* Types *)

LEMMA Lengths ==
  /\ MessageIdBufferLen \in Nat \ {0} /\ CSMSMessageQueueLen \in Nat \ {0}
  /\ CSMSCallResponseBufferLen \in Nat \ {0} /\ CSMSCallQueueLen \in Nat
BY PipeAssumption

LEMMA InitTypes == Init => Types
<1> SUFFICES ASSUME Init PROVE Types
  OBVIOUS
<1>1. station \in Stations /\ manager \in Managers
  BY DEF Init, Stations, Managers
<1>2. csRx \in Slot(Messages) /\ csTx \in Slot(Messages) /\ csmsTx \in Slot(Messages)
      /\ pending \in Slot(Sends)
  BY DEF Init, Slot
<1>3. /\ wire \in Seq(Messages) /\ csmsRx \in Seq(Messages) /\ callBuf \in Seq(Messages)
      /\ calls \in Seq(Messages) /\ ids \in Seq(Nat)
  BY DEF Init
<1>4. Len(csmsRx) = 0 /\ Len(callBuf) = 0 /\ Len(calls) = 0 /\ Len(ids) = 0
  BY DEF Init
<1>5. /\ Len(csmsRx) <= CSMSMessageQueueLen /\ Len(callBuf) <= CSMSCallQueueLen
      /\ Len(ids) <= MessageIdBufferLen /\ Len(calls) <= CSMSCallResponseBufferLen
  BY <1>4, Lengths
<1> QED
  BY <1>1, <1>2, <1>3, <1>5 DEF Init, Types, Goroutines

LEMMA MessageTypes ==
  ASSUME NEW i \in Nat
  PROVE  Call(i) \in Messages /\ Answer(i) \in Messages
BY DEF Call, Answer, Messages

LEMMA StationTypes ==
  ASSUME Types,
         \/ StationCall \/ StationRepeats \/ StationAnswers
         \/ StationSendsBadFrame \/ StationStopsReading \/ StationCloses
  PROVE  Types'
<1>1. station \in Stations /\ wire \in Seq(Messages) /\ {Bad, Short} \subseteq Messages
  BY DEF Types, Bad, Short, Messages
<1>2. UNCHANGED <<channels, pipe, running, halt, manager>>
  BY DEF StationCall, StationRepeats, StationAnswers, StationSendsBadFrame,
         StationStopsReading, StationCloses
<1>3. station' \in Stations /\ wire' \in Seq(Messages)
  <2>1. CASE StationCall
    <3>1. station' = [station EXCEPT !.calls = @ + 1]
      BY <2>1 DEF StationCall
    <3>2. station.calls + 1 \in Nat /\ station'.calls = station.calls + 1
      BY <1>1, <3>1 DEF Stations
    <3>3. station' \in Stations
      BY <1>1, <3>1, <3>2 DEF Stations
    <3> QED
      BY <1>1, <2>1, <3>2, <3>3, MessageTypes, AppendFacts DEF StationCall
  <2>2. CASE StationRepeats
    <3>1. station' = [station EXCEPT !.repeats = @ + 1]
      BY <2>2 DEF StationRepeats
    <3>2. station.repeats + 1 \in Nat /\ station.calls \in Nat
      BY <1>1 DEF Stations
    <3>3. station' \in Stations
      BY <1>1, <3>1, <3>2 DEF Stations
    <3> QED
      BY <1>1, <2>2, <3>2, <3>3, MessageTypes, AppendFacts DEF StationRepeats
  <2>3. CASE StationAnswers
    <3>1. PICK i \in station.asked \ station.answered :
            /\ station' = [station EXCEPT !.answered = @ \union {i}]
            /\ wire' = Append(wire, Answer(i))
      BY <2>3 DEF StationAnswers
    <3>2. i \in Nat /\ station' \in Stations
      BY <1>1, <3>1 DEF Stations
    <3> QED
      BY <1>1, <3>1, <3>2, MessageTypes, AppendFacts
  <2>4. CASE StationSendsBadFrame
    BY <1>1, <2>4, AppendFacts DEF StationSendsBadFrame
  <2>5. CASE StationStopsReading
    BY <1>1, <2>5 DEF StationStopsReading, Stations
  <2>6. CASE StationCloses
    BY <1>1, <2>6 DEF StationCloses, Stations
  <2> QED
    BY <2>1, <2>2, <2>3, <2>4, <2>5, <2>6
<1> QED
  BY <1>2, <1>3 DEF Types, channels, pipe

LEMMA ManagerTypes ==
  ASSUME Types, ManagerCall \/ ManagerAnswers
  PROVE  Types'
<1>1. manager \in Managers /\ csmsRx \in Seq(Messages)
  BY DEF Types
<1>2. UNCHANGED <<wire, csRx, csTx, csmsTx, callBuf, pipe, running, halt, station>>
  BY DEF ManagerCall, ManagerAnswers
<1>3. /\ manager' \in Managers
      /\ \E i \in Nat : FromCSMS(Call(i)) \/ FromCSMS(Answer(i))
  <2>1. CASE ManagerCall
    <3>1. manager' = [manager EXCEPT !.calls = @ + 1] /\ FromCSMS(Call(manager'.calls))
      BY <2>1 DEF ManagerCall
    <3>2. manager' \in Managers /\ manager'.calls \in Nat
      BY <1>1, <3>1 DEF Managers
    <3> QED
      BY <3>1, <3>2
  <2>2. CASE ManagerAnswers
    <3>1. PICK i \in manager.asked \ manager.answered :
            /\ manager' = [manager EXCEPT !.answered = @ \union {i}]
            /\ FromCSMS(Answer(i))
      BY <2>2 DEF ManagerAnswers
    <3>2. i \in Nat /\ manager' \in Managers
      BY <1>1, <3>1 DEF Managers
    <3> QED
      BY <3>1, <3>2
  <2> QED
    BY <2>1, <2>2
<1>4. csmsRx' \in Seq(Messages) /\ Len(csmsRx') <= CSMSMessageQueueLen
  BY <1>1, <1>3, MessageTypes, AppendFacts, PipeAssumption DEF FromCSMS
<1> QED
  BY <1>2, <1>3, <1>4 DEF Types, pipe

LEMMA GatewayTypes ==
  ASSUME Types,
         \/ ReadFromChargeStation \/ ReadPanics \/ ConnectionClosed \/ PublishToCSMS
         \/ WriteToChargeStation \/ \E g \in {"publisher", "writer"} : ContextDone(g)
  PROVE  Types'
<1>1. /\ wire \in Seq(Messages) /\ csRx \in Slot(Messages) /\ csTx \in Slot(Messages)
      /\ csmsTx \in Slot(Messages) /\ station \in Stations /\ manager \in Managers
      /\ Bad \in Messages
  BY DEF Types, Bad, Messages
<1>2. CASE ReadFromChargeStation
  <2>1. wire' = Tail(wire) /\ wire # <<>>
    BY <1>2 DEF ReadFromChargeStation
  <2>2. Head(wire) \in Messages /\ wire' \in Seq(Messages)
    BY <1>1, <2>1, TailFacts
  <2>3. csRx' \in Slot(Messages) /\ csTx' \in Slot(Messages)
    BY <1>1, <1>2, <2>2, SlotOf DEF ReadFromChargeStation
  <2> QED
    BY <1>2, <2>2, <2>3 DEF ReadFromChargeStation, Types, pipe
<1>3. CASE ReadPanics \/ ConnectionClosed
  <2>1. wire' \in Seq(Messages)
    BY <1>1, <1>3, TailFacts DEF ReadPanics, ConnectionClosed
  <2> QED
    BY <1>3, <2>1 DEF ReadPanics, ConnectionClosed, Types, channels, pipe
<1>4. CASE PublishToCSMS
  <2>1. PICK m : m = Head(csmsTx)
    OBVIOUS
  <2>2. m \in Messages /\ csmsTx' = <<>>
    BY <1>1, <1>4, <2>1, SlotFacts DEF PublishToCSMS
  <2>3. manager' \in Managers
    <3>1. CASE manager' = [manager EXCEPT !.asked = @ \union {m.id}]
      BY <1>1, <2>2, <3>1 DEF Managers, Messages
    <3>2. CASE manager' = [manager EXCEPT !.results = Append(@, m)]
      <4>1. Append(manager.results, m) \in Seq(Messages)
        BY <1>1, <2>2, AppendFacts DEF Managers
      <4> QED
        BY <1>1, <3>2, <4>1 DEF Managers
    <3>3. CASE manager' = [manager EXCEPT !.lost = @ \union {m}]
      BY <1>1, <2>2, <3>3 DEF Managers
    <3> QED
      BY <1>4, <2>1, <3>1, <3>2, <3>3 DEF PublishToCSMS
  <2> QED
    BY <1>4, <2>2, <2>3 DEF PublishToCSMS, Types, Slot, pipe
<1>5. CASE WriteToChargeStation
  <2>1. PICK m : m = Head(csTx)
    OBVIOUS
  <2>2. m \in Messages /\ csTx' = <<>>
    BY <1>1, <1>5, <2>1, SlotFacts DEF WriteToChargeStation
  <2>3. station' \in Stations
    <3>0. CASE ~station.open
      BY <1>1, <1>5, <3>0 DEF WriteToChargeStation
    <3>1. CASE station.open /\ m.type = "call"
      <4>1. station' = [station EXCEPT !.asked = @ \union {m.id}] /\ m.id \in Nat
        BY <1>5, <2>1, <2>2, <3>1 DEF WriteToChargeStation, Messages
      <4> QED
        BY <1>1, <4>1 DEF Stations
    <3>2. CASE station.open /\ m.type = "answer"
      <4>1. station' = [station EXCEPT !.answers = Append(@, m.id)] /\ m.id \in Nat
        BY <1>5, <2>1, <2>2, <3>2 DEF WriteToChargeStation, Messages
      <4>2. Append(station.answers, m.id) \in Seq(Nat)
        BY <1>1, <4>1, AppendFacts DEF Stations
      <4> QED
        BY <1>1, <4>1, <4>2 DEF Stations
    <3>3. CASE station.open /\ m.type = "bad"
      <4>1. station' = [station EXCEPT !.errors = @ + 1]
        BY <1>5, <2>1, <3>3 DEF WriteToChargeStation
      <4>2. station.errors + 1 \in Nat
        BY <1>1 DEF Stations
      <4> QED
        BY <1>1, <4>1, <4>2 DEF Stations
    <3> QED
      BY <1>1, <2>2, <3>0, <3>1, <3>2, <3>3 DEF Messages, Stations
  <2> QED
    BY <1>5, <2>2, <2>3 DEF WriteToChargeStation, Types, Slot, pipe
<1>6. ASSUME NEW g \in {"publisher", "writer"}, ContextDone(g)
      PROVE  Types'
  BY <1>6 DEF ContextDone, Types, channels, pipe
<1> QED
  BY <1>2, <1>3, <1>4, <1>5, <1>6

\* What the pipe does with a message of the station keeps the types of its state.
LEMMA FromStationTypes ==
  ASSUME Types, FromStation
  PROVE  /\ csRx' \in Slot(Messages)
         /\ UNCHANGED <<csTx, csmsRx, csmsTx, callBuf>>
         /\ status' \in {"Waiting", "ChargeStationCall", "CSMSCall"}
         /\ pending' \in Slot(Sends)
         /\ ids' \in Seq(Nat) /\ Len(ids') <= MessageIdBufferLen
         /\ calls' \in Seq(Messages) /\ Len(calls') <= CSMSCallResponseBufferLen
<1>1. PICK m : m = Head(csRx)
  OBVIOUS
<1>2. /\ m \in Messages /\ csRx' \in Slot(Messages)
      /\ UNCHANGED <<csTx, csmsRx, csmsTx, callBuf>>
  BY <1>1, SlotFacts DEF FromStation, Types, Slot
<1>3. CASE CallFromStation(m)
  <2>1. CASE UNCHANGED <<status, pending, ids, calls>>
    BY <1>2, <2>1 DEF Types
  <2>2. CASE /\ ids' = Ring(MessageIdBufferLen, ids, m.id)
             /\ status' = "ChargeStationCall"
             /\ Send("csmsTx", m)
             /\ UNCHANGED calls
    <3>1. m.id \in Nat /\ ids \in Seq(Nat) /\ Len(ids) <= MessageIdBufferLen
      BY <1>2 DEF Messages, Types
    <3>2. ids' \in Seq(Nat) /\ Len(ids') <= MessageIdBufferLen
      BY <2>2, <3>1, RingFacts, Lengths
    <3>3. pending' \in Slot(Sends)
      BY <1>2, <2>2 DEF Send, Slot, Sends
    <3> QED
      BY <1>2, <2>2, <3>2, <3>3 DEF Types
  <2> QED
    BY <1>3, <2>1, <2>2 DEF CallFromStation
<1>4. CASE AnswerFromStation(m)
  <2>1. CASE UNCHANGED <<status, pending, ids, calls>>
    BY <1>2, <2>1 DEF Types
  <2>2. CASE /\ \E c \in findCSMSCall(m.id) : Send("csmsTx", Merged(m, c))
             /\ status' = IF m.id = Current(calls).id THEN "Waiting" ELSE status
             /\ UNCHANGED <<ids, calls>>
    <3>1. PICK c \in findCSMSCall(m.id) : Send("csmsTx", Merged(m, c))
      BY <2>2
    <3>2. c \in Messages
      BY ElementOfSeq DEF findCSMSCall, Range, Types
    <3>3. Merged(m, c) \in Messages
      BY <1>2, <3>2 DEF Merged, Messages
    <3>4. pending' \in Slot(Sends)
      BY <3>1, <3>3 DEF Send, Slot, Sends
    <3> QED
      BY <1>2, <2>2, <3>4 DEF Types
  <2> QED
    BY <1>4, <2>1, <2>2 DEF AnswerFromStation
<1> QED
  BY <1>1, <1>3, <1>4 DEF FromStation

\* The same for a message of the manager.
LEMMA FromManagerTypes ==
  ASSUME Types, NEW m \in Messages, CallFromCSMS(m) \/ AnswerFromCSMS(m)
  PROVE  /\ status' \in {"Waiting", "ChargeStationCall", "CSMSCall"}
         /\ pending' \in Slot(Sends)
         /\ ids' \in Seq(Nat) /\ Len(ids') <= MessageIdBufferLen
         /\ calls' \in Seq(Messages) /\ Len(calls') <= CSMSCallResponseBufferLen
<1>1. CASE CallFromCSMS(m)
  <2>1. calls' \in Seq(Messages) /\ Len(calls') <= CSMSCallResponseBufferLen
    BY <1>1, RingFacts, Lengths DEF CallFromCSMS, Types
  <2>2. pending' \in Slot(Sends)
    BY <1>1 DEF CallFromCSMS, Send, Slot, Sends
  <2> QED
    BY <1>1, <2>1, <2>2 DEF CallFromCSMS, Types
<1>2. CASE AnswerFromCSMS(m)
  <2>1. pending' \in Slot(Sends) /\ status' \in {"Waiting", "ChargeStationCall", "CSMSCall"}
    BY <1>2 DEF AnswerFromCSMS, Send, Slot, Sends, Types
  <2> QED
    BY <1>2, <2>1 DEF AnswerFromCSMS, Types
<1> QED
  BY <1>1, <1>2

LEMMA PipeTypes ==
  ASSUME Types,
         \/ PipeLooksAtStation \/ PipeTakesStation \/ PipeTakesCSMS \/ PipeTakesBuffered
         \/ PipeAwaitsCSMS \/ PipeAwaitsStation \/ ResponseTimeout \/ PipeSends \/ PipeHalts
  PROVE  Types'
<1>1. CASE PipeHalts
  BY <1>1 DEF PipeHalts, Types, channels, pipe
<1>2. CASE ResponseTimeout
  BY <1>2 DEF ResponseTimeout, Step, Types, channels
<1>3. CASE FromStation /\ Step /\ look' \in {"first", "any"}
  BY <1>3, FromStationTypes DEF Step, Types
<1>4. CASE PipeLooksAtStation
  <2>1. CASE csRx = <<>>
    BY <1>4, <2>1 DEF PipeLooksAtStation, Step, Types, channels
  <2>2. CASE csRx # <<>>
    BY <1>3, <1>4, <2>2 DEF PipeLooksAtStation, Types
  <2> QED
    BY <2>1, <2>2
<1>5. CASE PipeTakesStation
  BY <1>3, <1>5 DEF PipeTakesStation
<1>6. CASE PipeAwaitsStation
  BY <1>3, <1>6 DEF PipeAwaitsStation, Types
<1>7. CASE PipeTakesCSMS
  <2>1. csmsRx # <<>> /\ csmsRx \in Seq(Messages) /\ csmsRx' = Tail(csmsRx)
    BY <1>7 DEF PipeTakesCSMS, Types
  <2>2. /\ Head(csmsRx) \in Messages /\ csmsRx' \in Seq(Messages)
        /\ Len(csmsRx') = Len(csmsRx) - 1 /\ Len(csmsRx) \in Nat
    BY <2>1, TailFacts
  <2>3. Len(csmsRx') <= CSMSMessageQueueLen
    BY <2>2, Lengths DEF Types
  <2>4. /\ CallFromCSMS(Head(csmsRx)) \/ AnswerFromCSMS(Head(csmsRx))
        /\ look' = "first" /\ UNCHANGED <<csRx, csTx, csmsTx, callBuf>> /\ Step
    BY <1>7 DEF PipeTakesCSMS
  <2> QED
    BY <2>2, <2>3, <2>4, FromManagerTypes DEF Types, Step
<1>8. CASE PipeTakesBuffered
  <2>1. callBuf # <<>> /\ callBuf \in Seq(Messages) /\ callBuf' = Tail(callBuf)
    BY <1>8 DEF PipeTakesBuffered, Types
  <2>2. /\ Head(callBuf) \in Messages /\ callBuf' \in Seq(Messages)
        /\ Len(callBuf') = Len(callBuf) - 1 /\ Len(callBuf) \in Nat
    BY <2>1, TailFacts
  <2>3. Len(callBuf') <= CSMSCallQueueLen
    BY <2>2, Lengths DEF Types
  <2>4. /\ CallFromCSMS(Head(callBuf))
        /\ look' = "first" /\ UNCHANGED <<csRx, csTx, csmsRx, csmsTx>> /\ Step
    BY <1>8 DEF PipeTakesBuffered
  <2> QED
    BY <2>2, <2>3, <2>4, FromManagerTypes DEF Types, Step
<1>9. CASE PipeAwaitsCSMS
  <2>1. csmsRx # <<>> /\ csmsRx \in Seq(Messages) /\ csmsRx' = Tail(csmsRx)
    BY <1>9 DEF PipeAwaitsCSMS, Types
  <2>2. /\ Head(csmsRx) \in Messages /\ csmsRx' \in Seq(Messages)
        /\ Len(csmsRx') = Len(csmsRx) - 1 /\ Len(csmsRx) \in Nat
    BY <2>1, TailFacts
  <2>3. Len(csmsRx') <= CSMSMessageQueueLen
    BY <2>2, Lengths DEF Types
  <2>4. UNCHANGED <<csRx, csTx, csmsTx, look>> /\ Step
    BY <1>9 DEF PipeAwaitsCSMS
  <2>5. CASE Head(csmsRx).type = "call"
    <3>1. /\ callBuf' = IF Len(callBuf) < CSMSCallQueueLen
                          THEN Append(callBuf, Head(csmsRx)) ELSE callBuf
          /\ UNCHANGED <<status, pending, ids, calls>>
      BY <1>9, <2>5 DEF PipeAwaitsCSMS
    <3>2. callBuf' \in Seq(Messages) /\ Len(callBuf') <= CSMSCallQueueLen
      BY <2>2, <3>1, AppendFacts, Lengths DEF Types
    <3> QED
      BY <2>2, <2>3, <2>4, <3>1, <3>2 DEF Types, Step
  <2>6. CASE Head(csmsRx).type # "call"
    <3>1. AnswerFromCSMS(Head(csmsRx)) /\ UNCHANGED callBuf
      BY <1>9, <2>6 DEF PipeAwaitsCSMS
    <3> QED
      BY <2>2, <2>3, <2>4, <3>1, FromManagerTypes DEF Types, Step
  <2> QED
    BY <2>5, <2>6
<1>10. CASE PipeSends
  <2>1. PICK s : s = Head(pending)
    OBVIOUS
  <2>2. s \in Sends /\ pending' = <<>>
    BY <1>10, <2>1, SlotFacts DEF PipeSends, Types
  <2>3. s.msg \in Messages
    BY <2>2 DEF Sends
  <2>4. csTx' \in Slot(Messages) /\ csmsTx' \in Slot(Messages) /\ pending' \in Slot(Sends)
    BY <1>10, <2>1, <2>2, <2>3, SlotOf DEF PipeSends, Types, Slot
  <2> QED
    BY <1>10, <2>4 DEF PipeSends, Types, Step
<1> QED
  BY <1>1, <1>2, <1>4, <1>5, <1>6, <1>7, <1>8, <1>9, <1>10

-----------------------------------------------------------------------------
(* What a step may change without touching a part of the invariant *)

LEMMA LastOfType ==
  ASSUME NEW q \in Seq(Nat)
  PROVE  LastOf(q) \in Nat
<1>1. CASE q = <<>>
  BY <1>1 DEF LastOf
<1>2. CASE q # <<>>
  <2>1. Len(q) \in Nat /\ Len(q) # 0
    BY <1>2, LenProperties, EmptySeq
  <2>2. Len(q) \in 1..Len(q)
    BY <2>1
  <2> QED
    BY <1>2, <2>2, ElementOfSeq DEF LastOf
<1> QED
  BY <1>1, <1>2

LEMMA LastOfRing ==
  ASSUME NEW ring \in Seq(Nat), NEW v \in Nat, NEW n \in Nat \ {0}, Len(ring) <= n
  PROVE  LastOf(Ring(n, ring, v)) = v
<1>1. Ring(n, ring, v) # <<>> /\ Ring(n, ring, v)[Len(Ring(n, ring, v))] = v
  BY RingFacts
<1> QED
  BY <1>1 DEF LastOf

LEMMA MessageAt ==
  ASSUME NEW q \in Seq(Messages), NEW k \in 1..Len(q)
  PROVE  q[k] \in Messages /\ q[k].id \in Nat
<1>1. q[k] \in Messages
  BY ElementOfSeq
<1> QED
  BY <1>1 DEF Messages

LEMMA MessageIn ==
  ASSUME NEW q \in Slot(Messages), q # <<>>
  PROVE  q[1] \in Messages /\ q[1].id \in Nat /\ Head(q) = q[1]
<1>1. q[1] \in Messages /\ Head(q) = q[1]
  BY SlotFacts
<1> QED
  BY <1>1 DEF Messages

LEMMA CallOrderFrame ==
  ASSUME CallOrder, UNCHANGED <<wire, csRx, ids>>, station'.calls = station.calls
  PROVE  CallOrder'
BY DEF CallOrder, Between, LastId

LEMMA AnsweredOnceFrame ==
  ASSUME Types, Types', AnsweredOnce, UNCHANGED csmsRx,
         \A i \in Nat : Passed(i)' => Passed(i),
         manager.answered \subseteq manager'.answered,
         LastId <= LastId'
  PROVE  AnsweredOnce'
<1>1. \A k \in 1..Len(csmsRx) : csmsRx[k].id \in Nat
  BY MessageAt DEF Types
<1>2. LastId \in Nat /\ LastId' \in Nat
  BY LastOfType DEF Types, LastId
<1>3. \A i \in Nat : Passed(i)' => i <= LastId' /\ i \in manager'.answered
  BY <1>2 DEF AnsweredOnce
<1>4. \A k \in 1..Len(csmsRx) : \A i : i = csmsRx[k].id /\ ~Passed(i) => ~Passed(i)'
  BY <1>1
<1>5. \A k \in 1..Len(csmsRx) : csmsRx[k].type = "answer" =>
        /\ csmsRx[k].id \in manager'.answered
        /\ ~Passed(csmsRx[k].id)'
        /\ \A j \in 1..Len(csmsRx) :
             csmsRx[j].type = "answer" /\ csmsRx[j].id = csmsRx[k].id => j = k
  BY <1>4 DEF AnsweredOnce, Passed, InSend, InTx, AtStation
<1> QED
  BY <1>3, <1>5 DEF AnsweredOnce

LEMMA PassedFrame ==
  ASSUME UNCHANGED <<pending, csTx>>, station'.answers = station.answers
  PROVE  /\ \A i : (InSend(i)' <=> InSend(i)) /\ (InTx(i)' <=> InTx(i))
         /\ \A i : (AtStation(i)' <=> AtStation(i)) /\ (Passed(i)' <=> Passed(i))
         /\ PassedInOrder => PassedInOrder'
BY DEF InSend, InTx, AtStation, Passed, PassedInOrder

LEMMA RequestFrame ==
  ASSUME RequestInv, UNCHANGED <<csmsRx, callBuf, calls, wire, csRx, pending, csmsTx>>,
         manager'.results = manager.results,
         station.answered \subseteq station'.answered
  PROVE  RequestInv'
BY DEF RequestInv, OwnRequest, Genuine, Carries

-----------------------------------------------------------------------------
(* The two ends *)

LEMMA StationSends ==
  ASSUME IInv, Types', NEW m \in Messages, wire' = Append(wire, m),
         UNCHANGED <<channels, pipe, manager>>,
         station.calls <= station'.calls, station'.answers = station.answers,
         station.answered \subseteq station'.answered,
         m.type = "call" => m.id = station'.calls,
         m.type = "answer" => m.id \in station'.answered,
         m.type = "bad" => m \in {Bad, Short}
  PROVE  IInv'
<1>1. /\ Len(wire') = Len(wire) + 1 /\ Len(wire) \in Nat
      /\ \A k \in 1..Len(wire) : wire'[k] = wire[k]
      /\ wire'[Len(wire) + 1] = m
  BY AppendFacts DEF IInv, Types
<1>2. \A k \in 1..Len(wire') : k \in 1..Len(wire) \/ k = Len(wire) + 1
  BY <1>1
<1>3. UNCHANGED <<csRx, csTx, csmsRx, csmsTx, callBuf, status, look, pending, ids, calls>>
  BY DEF channels, pipe
<1>4. /\ LastId' = LastId /\ LastId \in Nat
      /\ station.calls \in Nat /\ station'.calls \in Nat
  BY <1>3, LastOfType DEF LastId, IInv, Types, Stations
<1>5. CallOrder'
  <2>1. \A k \in 1..Len(wire) : wire[k].type = "call" =>
          wire[k].id \in Nat /\ wire[k].id <= station.calls /\ LastId <= wire[k].id
    BY MessageAt DEF IInv, CallOrder, Between, Types
  <2>2. \A i \in Nat : Between(i) => Between(i)'
    BY <1>4 DEF Between
  <2>3. Between(LastId)'
    BY <1>4 DEF Between, IInv, CallOrder
  <2>4. \A k \in 1..Len(wire') : wire'[k].type = "call" =>
          LastId <= wire'[k].id /\ wire'[k].id <= station'.calls
    BY <1>1, <1>2, <1>4, <2>1 DEF IInv, CallOrder, Between
  <2>5. \A k \in 1..Len(wire') : wire'[k].type = "call" =>
          \A j \in 1..Len(wire') : j < k /\ wire'[j].type = "call" => wire'[j].id <= wire'[k].id
    <3> SUFFICES ASSUME NEW k \in 1..Len(wire'), NEW j \in 1..Len(wire'), j < k,
                        wire'[k].type = "call", wire'[j].type = "call"
                 PROVE  wire'[j].id <= wire'[k].id
      OBVIOUS
    <3>1. j \in 1..Len(wire) /\ wire'[j] = wire[j]
      BY <1>1
    <3>2. CASE k \in 1..Len(wire)
      BY <1>1, <3>1, <3>2 DEF IInv, CallOrder
    <3>3. CASE k = Len(wire) + 1
      BY <1>1, <1>4, <2>1, <3>1, <3>3
    <3> QED
      BY <1>2, <3>2, <3>3
  <2>6. csRx # <<>> /\ csRx[1].type = "call" =>
          /\ LastId <= csRx[1].id /\ csRx[1].id <= station'.calls
          /\ \A k \in 1..Len(wire') : wire'[k].type = "call" => csRx[1].id <= wire'[k].id
    <3> SUFFICES ASSUME csRx # <<>>, csRx[1].type = "call"
                 PROVE  /\ LastId <= csRx[1].id /\ csRx[1].id <= station'.calls
                        /\ \A k \in 1..Len(wire') :
                             wire'[k].type = "call" => csRx[1].id <= wire'[k].id
      OBVIOUS
    <3>1. csRx[1].id \in Nat
      BY MessageIn DEF IInv, Types
    <3>2. LastId <= csRx[1].id /\ csRx[1].id <= station'.calls
      BY <1>4, <3>1 DEF IInv, CallOrder, Between
    <3> QED
      BY <1>1, <1>2, <3>2 DEF IInv, CallOrder
  <2> QED
    BY <1>3, <1>4, <2>3, <2>4, <2>5, <2>6 DEF CallOrder, Between
<1>6. AnsweredOnce' /\ PassedInOrder'
  BY <1>3, <1>4, PassedFrame, AnsweredOnceFrame DEF IInv
<1>7. RequestInv'
  <2>1. Genuine(wire)' /\ \A k \in 1..Len(wire') : wire'[k].type = "bad" => wire'[k] \in {Bad, Short}
    BY <1>1, <1>2 DEF Genuine, IInv, RequestInv
  <2> QED
    BY <1>3, <2>1 DEF IInv, RequestInv, OwnRequest, Genuine, Carries
<1> QED
  BY <1>5, <1>6, <1>7 DEF IInv

LEMMA StationIInv ==
  ASSUME IInv, Types',
         \/ StationCall \/ StationRepeats \/ StationAnswers
         \/ StationSendsBadFrame \/ StationStopsReading \/ StationCloses
  PROVE  IInv'
<1>1. /\ station \in Stations /\ station.calls \in Nat
      /\ UNCHANGED <<channels, pipe, manager>>
  BY DEF IInv, Types, Stations, StationCall, StationRepeats, StationAnswers,
         StationSendsBadFrame, StationStopsReading, StationCloses
<1>2. CASE StationCall
  <2>1. station' = [station EXCEPT !.calls = @ + 1] /\ wire' = Append(wire, Call(station'.calls))
    BY <1>2 DEF StationCall
  <2>2. /\ station'.calls = station.calls + 1 /\ station'.answers = station.answers
        /\ station'.answered = station.answered
    BY <1>1, <2>1 DEF Stations
  <2>3. PICK m : m = Call(station'.calls)
    OBVIOUS
  <2>4. m \in Messages /\ m.type = "call" /\ m.id = station'.calls
    BY <1>1, <2>2, <2>3, MessageTypes DEF Call
  <2> QED
    BY <1>1, <2>1, <2>2, <2>3, <2>4, StationSends
<1>3. CASE StationRepeats
  <2>1. /\ station' = [station EXCEPT !.repeats = @ + 1]
        /\ wire' = Append(wire, Call(station.calls))
    BY <1>3 DEF StationRepeats
  <2>2. /\ station'.calls = station.calls /\ station'.answers = station.answers
        /\ station'.answered = station.answered
    BY <1>1, <2>1 DEF Stations
  <2>3. PICK m : m = Call(station.calls)
    OBVIOUS
  <2>4. m \in Messages /\ m.type = "call" /\ m.id = station'.calls
    BY <1>1, <2>2, <2>3, MessageTypes DEF Call
  <2> QED
    BY <1>1, <2>1, <2>2, <2>3, <2>4, StationSends
<1>4. CASE StationAnswers
  <2>1. PICK i \in station.asked \ station.answered :
          /\ station' = [station EXCEPT !.answered = @ \union {i}]
          /\ wire' = Append(wire, Answer(i))
    BY <1>4 DEF StationAnswers
  <2>2. /\ station'.calls = station.calls /\ station'.answers = station.answers
        /\ station'.answered = station.answered \union {i}
    BY <1>1, <2>1 DEF Stations
  <2>3. i \in Nat
    BY <1>1 DEF Stations
  <2>4. Answer(i) \in Messages /\ Answer(i).type = "answer" /\ Answer(i).id = i
    BY <2>3, MessageTypes DEF Answer
  <2> QED
    BY <1>1, <2>1, <2>2, <2>4, StationSends
<1>5. CASE StationSendsBadFrame
  <2>1. PICK m \in {Bad, Short} : wire' = Append(wire, m) /\ station' = station
    BY <1>5 DEF StationSendsBadFrame
  <2>2. m \in Messages /\ m.type = "bad"
    BY DEF Bad, Short, Messages
  <2> QED
    BY <1>1, <2>1, <2>2, StationSends
<1>6. CASE StationStopsReading \/ StationCloses
  <2>1. /\ \/ station' = [station EXCEPT !.open = FALSE]
           \/ station' = [station EXCEPT !.reads = FALSE]
        /\ UNCHANGED <<wire, csRx, csTx, csmsRx, csmsTx, callBuf, ids, calls, pending, manager>>
    BY <1>6 DEF StationStopsReading, StationCloses, channels, pipe
  <2>2. /\ station'.calls = station.calls /\ station'.answers = station.answers
        /\ station'.answered = station.answered
    BY <1>1, <2>1 DEF Stations
  <2>3. LastId' = LastId /\ LastId \in Nat
    BY <2>1, LastOfType DEF LastId, IInv, Types
  <2> QED
    BY <2>1, <2>2, <2>3, CallOrderFrame, PassedFrame, AnsweredOnceFrame, RequestFrame DEF IInv
<1> QED
  BY <1>2, <1>3, <1>4, <1>5, <1>6

LEMMA ManagerIInv ==
  ASSUME IInv, Types', ManagerCall \/ ManagerAnswers
  PROVE  IInv'
<1>1. /\ UNCHANGED <<wire, csRx, csTx, csmsTx, callBuf, ids, calls, pending, station>>
      /\ manager \in Managers /\ csmsRx \in Seq(Messages)
  BY DEF IInv, Types, ManagerCall, ManagerAnswers, pipe
<1>2. CallOrder' /\ PassedInOrder'
  BY <1>1, CallOrderFrame, PassedFrame DEF IInv
<1>3. \A i : Passed(i)' <=> Passed(i)
  BY <1>1, PassedFrame
<1>4. LastId' = LastId
  BY <1>1 DEF LastId
<1>5. PICK m \in Messages :
        /\ csmsRx' = Append(csmsRx, m)
        /\ manager'.results = manager.results
        /\ m.type = "call" => m.of = m.id /\ manager'.answered = manager.answered
        /\ m.type = "answer" => /\ manager'.answered = manager.answered \union {m.id}
                               /\ m.id \notin manager.answered
        /\ m.type # "bad"
  <2>1. CASE ManagerCall
    <3>1. manager' = [manager EXCEPT !.calls = @ + 1] /\ FromCSMS(Call(manager'.calls))
      BY <2>1 DEF ManagerCall
    <3>2. /\ manager'.calls \in Nat /\ manager'.results = manager.results
          /\ manager'.answered = manager.answered
      BY <1>1, <3>1 DEF Managers
    <3>3. PICK m : m = Call(manager'.calls)
      OBVIOUS
    <3>4. m \in Messages /\ m.type = "call" /\ m.of = m.id
      BY <3>2, <3>3, MessageTypes DEF Call
    <3> QED
      BY <3>1, <3>2, <3>3, <3>4 DEF FromCSMS
  <2>2. CASE ManagerAnswers
    <3>1. PICK i \in manager.asked \ manager.answered :
            /\ manager' = [manager EXCEPT !.answered = @ \union {i}]
            /\ FromCSMS(Answer(i))
      BY <2>2 DEF ManagerAnswers
    <3>2. /\ i \in Nat /\ manager'.results = manager.results
          /\ manager'.answered = manager.answered \union {i}
      BY <1>1, <3>1 DEF Managers
    <3>3. Answer(i) \in Messages /\ Answer(i).type = "answer" /\ Answer(i).id = i
      BY <3>2, MessageTypes DEF Answer
    <3> QED
      BY <3>1, <3>2, <3>3 DEF FromCSMS
  <2> QED
    BY <2>1, <2>2
<1>6. /\ Len(csmsRx') = Len(csmsRx) + 1 /\ Len(csmsRx) \in Nat
      /\ \A k \in 1..Len(csmsRx) : csmsRx'[k] = csmsRx[k]
      /\ csmsRx'[Len(csmsRx) + 1] = m
      /\ m.type \in {"call", "answer", "bad"} /\ m.id \in Nat
  BY <1>1, <1>5, AppendFacts DEF Messages
<1>7. \A k \in 1..Len(csmsRx') : k \in 1..Len(csmsRx) \/ k = Len(csmsRx) + 1
  BY <1>6
<1>8. AnsweredOnce'
  <2>1. \A i \in Nat : Passed(i)' => i <= LastId' /\ i \in manager'.answered
    BY <1>3, <1>4, <1>5, <1>6 DEF IInv, AnsweredOnce
  <2>2. ASSUME NEW k \in 1..Len(csmsRx'), csmsRx'[k].type = "answer",
               NEW i, i = csmsRx'[k].id
        PROVE  i \in manager'.answered /\ ~Passed(i)
    <3>1. CASE k \in 1..Len(csmsRx)
      BY <1>5, <1>6, <2>2, <3>1 DEF IInv, AnsweredOnce
    <3>2. CASE k = Len(csmsRx) + 1
      BY <1>5, <1>6, <2>2, <3>2 DEF IInv, AnsweredOnce
    <3> QED
      BY <1>7, <3>1, <3>2
  <2>3. ASSUME NEW k \in 1..Len(csmsRx'), csmsRx'[k].type = "answer",
               NEW j \in 1..Len(csmsRx'), csmsRx'[j].type = "answer",
               csmsRx'[j].id = csmsRx'[k].id
        PROVE  j = k
    <3>1. \A l \in 1..Len(csmsRx) : csmsRx[l].type = "answer" => csmsRx[l].id \in manager.answered
      BY DEF IInv, AnsweredOnce
    <3>2. CASE j \in 1..Len(csmsRx) /\ k \in 1..Len(csmsRx)
      BY <1>6, <2>3, <3>2 DEF IInv, AnsweredOnce
    <3>3. CASE j = Len(csmsRx) + 1 /\ k \in 1..Len(csmsRx)
      BY <1>5, <1>6, <2>3, <3>1, <3>3
    <3>4. CASE k = Len(csmsRx) + 1 /\ j \in 1..Len(csmsRx)
      BY <1>5, <1>6, <2>3, <3>1, <3>4
    <3> QED
      BY <1>7, <3>2, <3>3, <3>4
  <2>4. \A k \in 1..Len(csmsRx') : csmsRx'[k].type = "answer" =>
          csmsRx'[k].id \in manager'.answered /\ ~Passed(csmsRx[k].id)'
    BY <1>1, <2>2 DEF Passed, InSend, InTx, AtStation
  <2> QED
    BY <2>1, <2>3, <2>4 DEF AnsweredOnce
<1>9. RequestInv'
  <2>1. OwnRequest(csmsRx)'
    BY <1>5, <1>6, <1>7 DEF OwnRequest, IInv, RequestInv
  <2> QED
    BY <1>1, <1>5, <2>1 DEF IInv, RequestInv, OwnRequest, Genuine, Carries
<1> QED
  BY <1>2, <1>8, <1>9 DEF IInv

-----------------------------------------------------------------------------
(* The goroutines of ws.go *)

LEMMA ReadIInv ==
  ASSUME IInv, Types', ReadFromChargeStation \/ ReadPanics
  PROVE  IInv'
<1>1. /\ UNCHANGED <<csmsRx, csmsTx, callBuf, pending, ids, calls, station, manager>>
      /\ wire # <<>> /\ wire' = Tail(wire) /\ wire \in Seq(Messages)
  BY DEF ReadFromChargeStation, ReadPanics, IInv, Types, channels, pipe
<1>2. PICK m : m = wire[1]
  OBVIOUS
<1>3. /\ Head(wire) = m /\ m \in Messages /\ Len(wire) \in Nat /\ Len(wire) > 0
      /\ Len(wire') = Len(wire) - 1 /\ 1 \in 1..Len(wire)
      /\ \A k \in 1..Len(wire') : wire'[k] = wire[k + 1] /\ k + 1 \in 1..Len(wire) /\ 1 < k + 1
  BY <1>1, <1>2, TailFacts
<1>4. LastId' = LastId /\ LastId \in Nat
  BY <1>1, LastOfType DEF LastId, IInv, Types
<1>5. \A k \in 1..Len(wire') : wire'[k].type = "call" =>
        /\ Between(wire'[k].id)
        /\ \A j \in 1..Len(wire') : j < k /\ wire'[j].type = "call" => wire'[j].id <= wire'[k].id
  <2> SUFFICES ASSUME NEW k \in 1..Len(wire'), wire'[k].type = "call"
               PROVE  /\ Between(wire'[k].id)
                      /\ \A j \in 1..Len(wire') :
                           j < k /\ wire'[j].type = "call" => wire'[j].id <= wire'[k].id
    OBVIOUS
  <2>1. \A j \in 1..Len(wire') : j < k => j + 1 < k + 1
    BY <1>3
  <2> QED
    BY <1>3, <2>1 DEF IInv, CallOrder
<1>w. Genuine(wire)' /\ \A k \in 1..Len(wire') : wire'[k].type = "bad" => wire'[k] \in {Bad, Short}
  <2>1. /\ Genuine(wire)
        /\ \A k \in 1..Len(wire) : wire[k].type = "bad" => wire[k] \in {Bad, Short}
    BY DEF IInv, RequestInv
  <2>2. Genuine(wire)'
    BY <1>1, <1>3, <2>1 DEF Genuine
  <2>3. \A k \in 1..Len(wire') : wire'[k].type = "bad" => wire'[k] \in {Bad, Short}
    BY <1>3, <2>1
  <2> QED
    BY <2>2, <2>3
<1>6. CASE ReadFromChargeStation /\ m = Bad
  <2>1. csTx = <<>> /\ csTx' = <<Bad>> /\ UNCHANGED csRx
    BY <1>3, <1>6 DEF ReadFromChargeStation
  <2>2. CallOrder'
    <3>1. \A k \in 1..Len(wire') : csRx # <<>> /\ csRx[1].type = "call" /\ wire'[k].type = "call" =>
            csRx[1].id <= wire'[k].id
      BY <1>3 DEF IInv, CallOrder
    <3> QED
      BY <1>1, <1>4, <1>5, <2>1, <3>1 DEF IInv, CallOrder, Between
  <2>3. \A i : /\ InSend(i)' <=> InSend(i)
               /\ AtStation(i)' <=> AtStation(i)
               /\ ~InTx(i) /\ ~InTx(i)'
    BY <1>1, <2>1 DEF InSend, AtStation, InTx, Bad
  <2>4. AnsweredOnce'
    BY <1>1, <1>4, <2>3, AnsweredOnceFrame DEF Passed, IInv
  <2>5. PassedInOrder'
    BY <1>1, <2>3 DEF PassedInOrder, IInv
  <2>6. RequestInv'
    BY <1>1, <1>w, <2>1 DEF IInv, RequestInv, OwnRequest, Genuine, Carries
  <2> QED
    BY <2>2, <2>4, <2>5, <2>6 DEF IInv
<1>7. CASE ReadFromChargeStation /\ m # Bad
  <2>1. csRx = <<>> /\ csRx' = <<m>> /\ UNCHANGED csTx
    BY <1>3, <1>7 DEF ReadFromChargeStation
  <2>2. csRx'[1] = m /\ Len(csRx') = 1
    BY <2>1
  <2>3. CallOrder'
    <3>1. m.type = "call" => /\ Between(m.id)
                             /\ \A k \in 1..Len(wire') : wire'[k].type = "call" => m.id <= wire'[k].id
      BY <1>2, <1>3 DEF IInv, CallOrder
    <3> QED
      BY <1>1, <1>4, <1>5, <2>2, <3>1, ZenonT(20) DEF IInv, CallOrder, Between
  <2>4. AnsweredOnce' /\ PassedInOrder'
    BY <1>1, <1>4, <2>1, PassedFrame, AnsweredOnceFrame DEF IInv
  <2>5. RequestInv'
    <3>1. m.type = "answer" => m.id \in station.answered
      BY <1>2, <1>3 DEF Genuine, IInv, RequestInv
    <3>2. m.type # "bad"
      BY <1>2, <1>3, <1>7 DEF IInv, RequestInv, ReadFromChargeStation
    <3> QED
      BY <1>1, <1>w, <2>2, <3>1, <3>2 DEF IInv, RequestInv, OwnRequest, Genuine, Carries
  <2> QED
    BY <2>3, <2>4, <2>5 DEF IInv
<1>8. CASE ReadPanics
  <2>1. UNCHANGED <<csRx, csTx>>
    BY <1>8 DEF ReadPanics, channels
  <2>2. CallOrder'
    <3>1. \A k \in 1..Len(wire') : csRx # <<>> /\ csRx[1].type = "call" /\ wire'[k].type = "call" =>
            csRx[1].id <= wire'[k].id
      BY <1>3 DEF IInv, CallOrder
    <3> QED
      BY <1>1, <1>4, <1>5, <2>1, <3>1 DEF IInv, CallOrder, Between
  <2>3. AnsweredOnce' /\ PassedInOrder'
    BY <1>1, <1>4, <2>1, PassedFrame, AnsweredOnceFrame DEF IInv
  <2>4. RequestInv'
    BY <1>1, <1>w, <2>1 DEF IInv, RequestInv, OwnRequest, Genuine, Carries
  <2> QED
    BY <2>2, <2>3, <2>4 DEF IInv
<1> QED
  BY <1>6, <1>7, <1>8

\* A step that moves no message.
LEMMA NoMessageMoves ==
  ASSUME IInv, Types',
         UNCHANGED <<wire, channels, pending, ids, calls, station, manager>>
  PROVE  IInv'
<1>1. UNCHANGED <<csRx, csTx, csmsRx, csmsTx, callBuf>>
  BY DEF channels
<1>2. LastId' = LastId /\ LastId \in Nat
  BY LastOfType DEF LastId, IInv, Types
<1>3. CallOrder' /\ RequestInv'
  BY <1>1, CallOrderFrame, RequestFrame DEF IInv
<1>4. PassedInOrder' /\ \A i \in Nat : Passed(i)' => Passed(i)
  BY <1>1, PassedFrame DEF IInv
<1>5. LastId <= LastId'
  BY <1>2
<1>6. AnsweredOnce'
  BY <1>1, <1>4, <1>5, AnsweredOnceFrame DEF IInv
<1> QED
  BY <1>3, <1>4, <1>6 DEF IInv

LEMMA PublishIInv ==
  ASSUME IInv, Types', PublishToCSMS
  PROVE  IInv'
<1>1. /\ UNCHANGED <<wire, csRx, csTx, csmsRx, callBuf, pending, ids, calls, station>>
      /\ csmsTx' = <<>> /\ csmsTx # <<>>
      /\ manager \in Managers /\ csmsTx \in Slot(Messages)
  BY DEF PublishToCSMS, IInv, Types, pipe
<1>2. PICK m : m = csmsTx[1]
  OBVIOUS
<1>3. /\ m = Head(csmsTx) /\ m \in Messages
      /\ m.type \in {"call", "answer", "bad"}
  BY <1>1, <1>2, MessageIn DEF Messages
<1>4. \/ manager' = [manager EXCEPT !.asked = @ \union {m.id}]
      \/ manager' = [manager EXCEPT !.lost = @ \union {m}]
      \/ m.type # "call" /\ manager' = [manager EXCEPT !.results = Append(@, m)]
  BY <1>3 DEF PublishToCSMS
<1>5. manager'.answered = manager.answered
  BY <1>1, <1>4 DEF Managers
<1>6. LastId' = LastId /\ LastId \in Nat
  BY <1>1, LastOfType DEF LastId, IInv, Types
<1>7. CallOrder' /\ PassedInOrder' /\ AnsweredOnce'
  BY <1>1, <1>5, <1>6, CallOrderFrame, PassedFrame, AnsweredOnceFrame DEF IInv
<1>8. \A k \in 1..Len(manager'.results) :
        LET r == manager'.results[k] IN r.of = r.id /\ r.id \in station.answered
  <2>1. CASE manager'.results = manager.results
    BY <2>1 DEF IInv, RequestInv
  <2>2. CASE m.type # "call" /\ manager' = [manager EXCEPT !.results = Append(@, m)]
    <3>1. manager'.results = Append(manager.results, m) /\ manager.results \in Seq(Messages)
      BY <1>1, <2>2 DEF Managers
    <3>2. /\ Len(manager'.results) = Len(manager.results) + 1 /\ Len(manager.results) \in Nat
          /\ \A k \in 1..Len(manager.results) : manager'.results[k] = manager.results[k]
          /\ manager'.results[Len(manager.results) + 1] = m
      BY <1>3, <3>1, AppendFacts
    <3>3. m.of = m.id /\ m.id \in station.answered
      BY <1>1, <1>2, <1>3, <2>2 DEF IInv, RequestInv, Carries
    <3> TAKE k \in 1..Len(manager'.results)
    <3>4. k \in 1..Len(manager.results) \/ k = Len(manager.results) + 1
      BY <3>2
    <3>5. CASE k \in 1..Len(manager.results)
      BY <3>2, <3>5 DEF IInv, RequestInv
    <3>6. CASE k = Len(manager.results) + 1
      BY <3>2, <3>3, <3>6
    <3> QED
      BY <3>4, <3>5, <3>6
  <2> QED
    BY <1>1, <1>4, <2>1, <2>2 DEF Managers
<1>9. RequestInv'
  BY <1>1, <1>8 DEF IInv, RequestInv, OwnRequest, Genuine, Carries
<1> QED
  BY <1>7, <1>9 DEF IInv

LEMMA WriteIInv ==
  ASSUME IInv, Types', WriteToChargeStation
  PROVE  IInv'
<1>1. /\ UNCHANGED <<wire, csRx, csmsRx, csmsTx, callBuf, pending, ids, calls, manager>>
      /\ csTx' = <<>> /\ csTx # <<>>
      /\ station \in Stations /\ csTx \in Slot(Messages) /\ station.answers \in Seq(Nat)
  BY DEF WriteToChargeStation, IInv, Types, pipe, Stations
<1>2. PICK m : m = csTx[1]
  OBVIOUS
<1>3. m = Head(csTx) /\ m \in Messages /\ m.type \in {"call", "answer", "bad"} /\ m.id \in Nat
  BY <1>1, <1>2, MessageIn DEF Messages
<1>4. /\ station'.calls = station.calls /\ station'.answered = station.answered
      /\ station'.answers = IF station.open /\ m.type = "answer"
                            THEN Append(station.answers, m.id) ELSE station.answers
  <2>0. CASE ~station.open
    BY <2>0 DEF WriteToChargeStation
  <2>1. CASE station.open /\ m.type = "call"
    <3>1. station' = [station EXCEPT !.asked = @ \union {m.id}]
      BY <1>3, <2>1 DEF WriteToChargeStation
    <3> QED
      BY <1>1, <2>1, <3>1 DEF Stations
  <2>2. CASE station.open /\ m.type = "answer"
    <3>1. station' = [station EXCEPT !.answers = Append(@, m.id)]
      BY <1>3, <2>2 DEF WriteToChargeStation
    <3> QED
      BY <1>1, <2>2, <3>1 DEF Stations
  <2>3. CASE station.open /\ m.type = "bad"
    <3>1. station' = [station EXCEPT !.errors = @ + 1]
      BY <1>3, <2>3 DEF WriteToChargeStation
    <3> QED
      BY <1>1, <2>3, <3>1 DEF Stations
  <2> QED
    BY <1>3, <2>0, <2>1, <2>2, <2>3
<1>5. CallOrder' /\ RequestInv'
  BY <1>1, <1>4, CallOrderFrame, RequestFrame DEF IInv
<1>6. LastId' = LastId /\ LastId \in Nat
  BY <1>1, LastOfType DEF LastId, IInv, Types
<1>7. CASE ~(station.open /\ m.type = "answer")
  <2>1. \A i : /\ InSend(i)' <=> InSend(i)
               /\ AtStation(i)' <=> AtStation(i)
               /\ ~InTx(i)'
    BY <1>1, <1>4, <1>7 DEF InSend, AtStation, InTx
  <2>2. AnsweredOnce'
    BY <1>1, <1>6, <2>1, AnsweredOnceFrame DEF Passed, IInv
  <2>3. PassedInOrder'
    BY <1>4, <1>7, <2>1 DEF PassedInOrder, IInv
  <2> QED
    BY <1>5, <2>2, <2>3 DEF IInv
<1>8. CASE station.open /\ m.type = "answer"
  <2>1. /\ Len(station'.answers) = Len(station.answers) + 1 /\ Len(station.answers) \in Nat
        /\ \A k \in 1..Len(station.answers) : station'.answers[k] = station.answers[k]
        /\ station'.answers[Len(station.answers) + 1] = m.id
    BY <1>1, <1>3, <1>4, <1>8, AppendFacts
  <2>2. \A k \in 1..Len(station'.answers) :
          k \in 1..Len(station.answers) \/ k = Len(station.answers) + 1
    BY <2>1
  <2>3. \A i : /\ InSend(i)' <=> InSend(i)
               /\ ~InTx(i)'
               /\ InTx(i) <=> i = m.id
    BY <1>1, <1>2, <1>8 DEF InSend, InTx
  <2>4. \A i : AtStation(i)' <=> AtStation(i) \/ i = m.id
    BY <2>1, <2>2 DEF AtStation
  <2>5. \A i \in Nat : Passed(i)' => Passed(i)
    BY <2>3, <2>4 DEF Passed
  <2>6. AnsweredOnce'
    BY <1>1, <1>6, <2>5, AnsweredOnceFrame DEF IInv
  <2>7. PassedInOrder'
    <3>1. \A j, k \in 1..Len(station'.answers) :
            j < k => station'.answers[j] < station'.answers[k]
      <4> SUFFICES ASSUME NEW j \in 1..Len(station'.answers),
                          NEW k \in 1..Len(station'.answers), j < k
                   PROVE  station'.answers[j] < station'.answers[k]
        OBVIOUS
      <4>1. j \in 1..Len(station.answers) /\ station.answers[j] \in Nat
        BY <1>1, <2>1, ElementOfSeq
      <4>2. CASE k \in 1..Len(station.answers)
        BY <2>1, <4>1, <4>2 DEF IInv, PassedInOrder
      <4>3. CASE k = Len(station.answers) + 1
        <5>1. InTx(m.id) /\ AtStation(station.answers[j])
          BY <2>3, <4>1 DEF AtStation
        <5> QED
          BY <1>3, <2>1, <4>1, <4>3, <5>1 DEF IInv, PassedInOrder
      <4> QED
        BY <2>2, <4>2, <4>3
    <3>2. \A i, j \in Nat : InSend(i)' /\ AtStation(j)' => j < i
      BY <2>3, <2>4 DEF IInv, PassedInOrder
    <3> QED
      BY <2>3, <3>1, <3>2 DEF PassedInOrder
  <2> QED
    BY <1>5, <2>6, <2>7 DEF IInv
<1> QED
  BY <1>7, <1>8

-----------------------------------------------------------------------------
(* The pipe *)

LEMMA FromStationIInv ==
  ASSUME IInv, Types', Ready, FromStation, Step
  PROVE  IInv'
<1>1. /\ UNCHANGED <<wire, csTx, csmsRx, csmsTx, callBuf, station, manager>>
      /\ csRx # <<>> /\ csRx' = <<>> /\ pending = <<>>
      /\ csRx \in Slot(Messages) /\ ids \in Seq(Nat)
  BY DEF FromStation, Step, Ready, IInv, Types
<1>2. PICK m : m = csRx[1]
  OBVIOUS
<1>3. m = Head(csRx) /\ m \in Messages /\ m.id \in Nat
  BY <1>1, <1>2, MessageIn
<1>4. LastId \in Nat
  BY <1>1, LastOfType DEF LastId
<1>5. /\ m.type # "call" => m.id \in station.answered
      /\ m.type = "call" => /\ LastId <= m.id /\ m.id <= station.calls
                           /\ \A k \in 1..Len(wire) : wire[k].type = "call" => m.id <= wire[k].id
  <2>1. 1 \in 1..Len(csRx)
    BY <1>1, SlotFacts
  <2>2. m.type = "call" \/ m.type = "answer"
    BY <1>1, <1>2, <1>3 DEF IInv, RequestInv, Messages
  <2> QED
    BY <1>1, <1>2, <2>1, <2>2 DEF IInv, RequestInv, Genuine, CallOrder, Between
<1>6. CASE UNCHANGED <<pending, ids, calls>>
  <2>1. CallOrder'
    BY <1>1, <1>6 DEF IInv, CallOrder, Between, LastId
  <2>2. LastId' = LastId
    BY <1>6 DEF LastId
  <2>3. AnsweredOnce' /\ PassedInOrder'
    BY <1>1, <1>4, <1>6, <2>2, PassedFrame, AnsweredOnceFrame DEF IInv
  <2>4. RequestInv'
    BY <1>1, <1>6 DEF IInv, RequestInv, OwnRequest, Genuine, Carries
  <2> QED
    BY <2>1, <2>3, <2>4 DEF IInv
<1>7. ASSUME NEW n \in Messages, Send("csmsTx", n), Carries(n), UNCHANGED calls,
             LastId <= LastId', CallOrder'
      PROVE  IInv'
  <2>1. /\ pending' # <<>> /\ pending'[1].to = "csmsTx" /\ pending'[1].msg = n
    BY <1>7 DEF Send
  <2>2. \A i : /\ ~InSend(i)' /\ ~InSend(i)
               /\ InTx(i)' <=> InTx(i)
               /\ AtStation(i)' <=> AtStation(i)
    BY <1>1, <2>1 DEF InSend, InTx, AtStation
  <2>3. AnsweredOnce'
    BY <1>1, <1>7, <2>2, AnsweredOnceFrame DEF IInv, Passed
  <2>4. PassedInOrder'
    BY <1>1, <2>2 DEF IInv, PassedInOrder
  <2>5. Carries(n)'
    BY <1>1, <1>7 DEF Carries
  <2>6. RequestInv'
    BY <1>1, <1>7, <2>1, <2>5 DEF IInv, RequestInv, OwnRequest, Genuine, Carries
  <2> QED
    BY <1>7, <2>3, <2>4, <2>6 DEF IInv
<1>8. CASE m.type = "call" /\ ids' = Ring(MessageIdBufferLen, ids, m.id)
           /\ Send("csmsTx", m) /\ UNCHANGED calls
  <2>1. LastId' = m.id
    <3>1. Len(ids) <= MessageIdBufferLen /\ MessageIdBufferLen \in Nat \ {0}
      BY Lengths DEF IInv, Types
    <3>2. LastOf(Ring(MessageIdBufferLen, ids, m.id)) = m.id
      BY <1>1, <1>3, <3>1, LastOfRing
    <3> QED
      BY <1>8, <3>2 DEF LastId
  <2>2. CallOrder'
    <3>1. \A k \in 1..Len(wire) : wire[k].type = "call" => wire[k].id <= station.calls
      BY DEF IInv, CallOrder, Between
    <3>2. m.id <= m.id
      BY <1>3
    <3> QED
      BY <1>1, <1>5, <1>8, <2>1, <3>1, <3>2 DEF IInv, CallOrder, Between
  <2>3. Carries(m)
    BY <1>8 DEF Carries
  <2> QED
    BY <1>3, <1>5, <1>7, <1>8, <2>1, <2>2, <2>3
<1>9. CASE m.type # "call" /\ (\E c \in findCSMSCall(m.id) : Send("csmsTx", Merged(m, c)))
           /\ UNCHANGED <<ids, calls>>
  <2>1. PICK c \in findCSMSCall(m.id) : Send("csmsTx", Merged(m, c))
    BY <1>9
  <2>2. PICK k \in 1..Len(calls) : c = calls[k]
    <3>1. DOMAIN calls = 1..Len(calls)
      BY LenProperties DEF IInv, Types
    <3> QED
      BY <3>1 DEF findCSMSCall, Range
  <2>3. c.id = m.id /\ c.of = c.id /\ c \in Messages
    BY <2>2, MessageAt DEF findCSMSCall, IInv, RequestInv, OwnRequest, Types
  <2>4. PICK n : n = Merged(m, c)
    OBVIOUS
  <2>5. n \in Messages /\ n.id = m.id /\ n.of = m.id /\ n.type = m.type
    BY <1>3, <2>3, <2>4 DEF Merged, Messages
  <2>6. Carries(n)
    BY <1>5, <2>5 DEF Carries
  <2>7. LastId <= LastId' /\ CallOrder'
    BY <1>1, <1>4, <1>9 DEF IInv, CallOrder, Between, LastId
  <2> QED
    BY <1>7, <1>9, <2>1, <2>4, <2>5, <2>6, <2>7
<1> QED
  BY <1>3, <1>6, <1>8, <1>9 DEF FromStation, CallFromStation, AnswerFromStation

\* The pipe takes a message of the manager; the answer to the station's last call
\* may pass with it.
LEMMA AnsweredOnceTaken ==
  ASSUME IInv, Types', csmsRx # <<>>, csmsRx' = Tail(csmsRx),
         UNCHANGED <<ids, manager>>,
         \A i \in Nat : Passed(i)' =>
            Passed(i) \/ (csmsRx[1].type = "answer" /\ csmsRx[1].id = i /\ i = LastId)
  PROVE  AnsweredOnce'
<1>1. /\ csmsRx \in Seq(Messages) /\ LastId \in Nat /\ LastId' = LastId
      /\ csmsRx' \in Seq(Messages)
  BY LastOfType DEF IInv, Types, LastId
<1>2. /\ 1 \in 1..Len(csmsRx) /\ Len(csmsRx) \in Nat
      /\ \A k \in 1..Len(csmsRx') : /\ csmsRx'[k] = csmsRx[k + 1] /\ k + 1 \in 1..Len(csmsRx)
                                   /\ k + 1 # 1
  BY <1>1, TailFacts
<1>3. \A i \in Nat : Passed(i)' => i <= LastId' /\ i \in manager'.answered
  BY <1>1, <1>2 DEF IInv, AnsweredOnce
<1>4. ASSUME NEW k \in 1..Len(csmsRx'), csmsRx'[k].type = "answer",
             NEW i, i = csmsRx'[k].id
      PROVE  i \in manager'.answered /\ ~Passed(i)'
  <2>1. i \in Nat /\ i = csmsRx[k + 1].id /\ csmsRx[k + 1].type = "answer"
    BY <1>1, <1>2, <1>4, MessageAt
  <2>2. i \in manager.answered /\ ~Passed(i)
    BY <1>2, <2>1 DEF IInv, AnsweredOnce
  <2>3. ~(csmsRx[1].type = "answer" /\ csmsRx[1].id = i)
    BY <1>2, <2>1 DEF IInv, AnsweredOnce
  <2> QED
    BY <2>1, <2>2, <2>3
<1>5. ASSUME NEW k \in 1..Len(csmsRx'), csmsRx'[k].type = "answer",
             NEW j \in 1..Len(csmsRx'), csmsRx'[j].type = "answer",
             csmsRx'[j].id = csmsRx'[k].id
      PROVE  j = k
  <2>1. j + 1 = k + 1
    BY <1>2, <1>5 DEF IInv, AnsweredOnce
  <2> QED
    BY <2>1
<1>6. \A k \in 1..Len(csmsRx') : csmsRx'[k].type = "answer" =>
        csmsRx'[k].id \in manager'.answered /\ ~Passed(csmsRx[k].id)'
  BY <1>4 DEF Passed, InSend, InTx, AtStation
<1> QED
  BY <1>3, <1>5, <1>6 DEF AnsweredOnce

LEMMA OwnRequestTail ==
  ASSUME NEW q \in Seq(Messages), q # <<>>, OwnRequest(q)
  PROVE  /\ OwnRequest(Tail(q)) /\ (Head(q).type = "call" => Head(q).of = Head(q).id)
         /\ (\A k \in 1..Len(q) : q[k].type = "call") =>
              /\ Head(q).type = "call"
              /\ \A k \in 1..Len(Tail(q)) : Tail(q)[k].type = "call"
<1>1. /\ Head(q) = q[1] /\ 1 \in 1..Len(q)
      /\ \A k \in 1..Len(Tail(q)) : Tail(q)[k] = q[k + 1] /\ k + 1 \in 1..Len(q)
  BY TailFacts
<1> QED
  BY <1>1 DEF OwnRequest

\* A call of the manager, from the channel or the buffer, goes to the station.
LEMMA CallFromCSMSFacts ==
  ASSUME IInv, Types', Ready, NEW m \in Messages, m.type = "call", m.of = m.id,
         CallFromCSMS(m), UNCHANGED csTx, station' = station
  PROVE  /\ OwnRequest(calls') /\ \A k \in 1..Len(calls') : calls'[k].type = "call"
         /\ pending' # <<>> => pending'[1].to # "csmsTx"
         /\ \A i \in Nat : Passed(i)' => Passed(i)
         /\ PassedInOrder'
<1>1. /\ calls' = Ring(CSMSCallResponseBufferLen, calls, m)
      /\ pending = <<>> /\ pending' = <<[to |-> "csTx", msg |-> m]>>
      /\ calls \in Seq(Messages) /\ Len(calls) <= CSMSCallResponseBufferLen
  BY DEF CallFromCSMS, Ready, Send, IInv, Types
<1>2. \A k \in 1..Len(calls') : calls'[k] = m \/ \E j \in 1..Len(calls) : calls'[k] = calls[j]
  BY <1>1, RingFacts, Lengths
<1>3. OwnRequest(calls') /\ \A k \in 1..Len(calls') : calls'[k].type = "call"
  BY <1>2 DEF IInv, RequestInv, OwnRequest
<1>4. pending' # <<>> /\ pending'[1].to = "csTx" /\ pending'[1].msg = m
  BY <1>1
<1>5. \A i : /\ ~InSend(i)'
             /\ InTx(i)' <=> InTx(i)
             /\ AtStation(i)' <=> AtStation(i)
  BY <1>4 DEF InSend, InTx, AtStation
<1>6. PassedInOrder'
  BY <1>5 DEF PassedInOrder, IInv
<1> QED
  BY <1>3, <1>4, <1>5, <1>6 DEF Passed

LEMMA AnswerFromCSMSFacts ==
  ASSUME IInv, Types', Ready, csmsRx # <<>>, NEW m, m = csmsRx[1], m.type # "call",
         AnswerFromCSMS(m), UNCHANGED csTx, station' = station
  PROVE  /\ UNCHANGED <<ids, calls>>
         /\ pending' # <<>> => pending'[1].to # "csmsTx"
         /\ \A i \in Nat : Passed(i)' =>
              Passed(i) \/ (csmsRx[1].type = "answer" /\ csmsRx[1].id = i /\ i = LastId)
         /\ PassedInOrder'
<1>1. UNCHANGED <<ids, calls>> /\ pending = <<>>
  BY DEF AnswerFromCSMS, Ready
<1>2. CASE UNCHANGED pending
  BY <1>1, <1>2, PassedFrame DEF IInv
<1>3. CASE Newest(ids, m.id) /\ Send("csTx", m)
  <2>1. pending' # <<>> /\ pending'[1].to = "csTx" /\ pending'[1].msg = m
    BY <1>3 DEF Send
  <2>2. m.id = LastId
    BY <1>3 DEF Newest, Current, LastId, LastOf
  <2>3. \A i : /\ InSend(i)' <=> (m.type = "answer" /\ i = m.id)
               /\ InTx(i)' <=> InTx(i)
               /\ AtStation(i)' <=> AtStation(i)
    BY <2>1 DEF InSend, InTx, AtStation
  <2>4. LastId \in Nat /\ 1 \in 1..Len(csmsRx)
    BY LastOfType, TailFacts DEF IInv, Types, LastId
  <2>5. m.type = "answer" => \A j \in Nat : InTx(j) \/ AtStation(j) => j < m.id
    <3>1. m.type = "answer" => ~Passed(m.id)
      BY <2>4 DEF IInv, AnsweredOnce
    <3>2. \A j \in Nat : InTx(j) \/ AtStation(j) => j <= LastId /\ Passed(j)
      BY DEF IInv, AnsweredOnce, Passed
    <3> QED
      BY <2>2, <2>4, <3>1, <3>2
  <2>6. PassedInOrder'
    BY <2>3, <2>5 DEF PassedInOrder, IInv
  <2> QED
    BY <1>1, <2>1, <2>2, <2>3, <2>6 DEF Passed
<1> QED
  BY <1>2, <1>3 DEF AnswerFromCSMS

LEMMA TakesCSMSIInv ==
  ASSUME IInv, Types', PipeTakesCSMS
  PROVE  IInv'
<1>1. /\ Ready /\ csmsRx # <<>> /\ csmsRx' = Tail(csmsRx) /\ csmsRx \in Seq(Messages)
      /\ UNCHANGED <<wire, csRx, csTx, csmsTx, callBuf, station, manager>>
  BY DEF PipeTakesCSMS, Step, IInv, Types
<1>2. PICK m : m = csmsRx[1]
  OBVIOUS
<1>3. m = Head(csmsRx) /\ m \in Messages
  BY <1>1, <1>2, TailFacts
<1>4. OwnRequest(csmsRx') /\ (m.type = "call" => m.of = m.id)
  BY <1>1, <1>3, OwnRequestTail DEF IInv, RequestInv
<1>5. /\ OwnRequest(calls') /\ \A k \in 1..Len(calls') : calls'[k].type = "call"
      /\ pending' # <<>> => pending'[1].to # "csmsTx"
      /\ \A i \in Nat : Passed(i)' =>
           Passed(i) \/ (csmsRx[1].type = "answer" /\ csmsRx[1].id = i /\ i = LastId)
      /\ PassedInOrder'
      /\ UNCHANGED ids
  <2>1. CASE m.type = "call"
    <3>1. CallFromCSMS(m)
      BY <1>3, <2>1 DEF PipeTakesCSMS
    <3>2. UNCHANGED ids
      BY <3>1 DEF CallFromCSMS
    <3> QED
      BY <1>1, <1>3, <1>4, <2>1, <3>1, <3>2, CallFromCSMSFacts
  <2>2. CASE m.type # "call"
    <3>1. AnswerFromCSMS(m)
      BY <1>3, <2>2 DEF PipeTakesCSMS
    <3> QED
      BY <1>1, <1>2, <2>2, <3>1, AnswerFromCSMSFacts DEF IInv, RequestInv
  <2> QED
    BY <2>1, <2>2
<1>6. AnsweredOnce'
  BY <1>1, <1>5, AnsweredOnceTaken
<1>7. CallOrder'
  BY <1>1, <1>5, CallOrderFrame DEF IInv
<1>8. RequestInv'
  BY <1>1, <1>4, <1>5 DEF IInv, RequestInv, OwnRequest, Genuine, Carries
<1> QED
  BY <1>5, <1>6, <1>7, <1>8 DEF IInv

LEMMA TakesBufferedIInv ==
  ASSUME IInv, Types', PipeTakesBuffered
  PROVE  IInv'
<1>1. /\ Ready /\ callBuf # <<>> /\ callBuf' = Tail(callBuf) /\ callBuf \in Seq(Messages)
      /\ UNCHANGED <<wire, csRx, csTx, csmsRx, csmsTx, station, manager>>
  BY DEF PipeTakesBuffered, Step, IInv, Types
<1>2. PICK m : m = Head(callBuf)
  OBVIOUS
<1>3. m \in Messages
  BY <1>1, <1>2, TailFacts
<1>4. /\ OwnRequest(callBuf') /\ m.type = "call" /\ m.of = m.id
      /\ \A k \in 1..Len(callBuf') : callBuf'[k].type = "call"
  BY <1>1, <1>2, OwnRequestTail DEF IInv, RequestInv
<1>5. CallFromCSMS(m) /\ UNCHANGED ids
  BY <1>2 DEF PipeTakesBuffered, CallFromCSMS
<1>6. /\ OwnRequest(calls') /\ \A k \in 1..Len(calls') : calls'[k].type = "call"
      /\ pending' # <<>> => pending'[1].to # "csmsTx"
      /\ \A i \in Nat : Passed(i)' => Passed(i)
      /\ PassedInOrder'
  BY <1>1, <1>3, <1>4, <1>5, CallFromCSMSFacts
<1>7. LastId' = LastId /\ LastId \in Nat
  BY <1>5, LastOfType DEF LastId, IInv, Types
<1>8. AnsweredOnce'
  BY <1>1, <1>6, <1>7, AnsweredOnceFrame DEF IInv
<1>9. CallOrder'
  BY <1>1, <1>5, CallOrderFrame DEF IInv
<1>10. RequestInv'
  BY <1>1, <1>4, <1>6 DEF IInv, RequestInv, OwnRequest, Genuine, Carries
<1> QED
  BY <1>6, <1>8, <1>9, <1>10 DEF IInv

LEMMA AwaitsCSMSIInv ==
  ASSUME IInv, Types', PipeAwaitsCSMS
  PROVE  IInv'
<1>1. /\ Ready /\ csmsRx # <<>> /\ csmsRx' = Tail(csmsRx) /\ csmsRx \in Seq(Messages)
      /\ UNCHANGED <<wire, csRx, csTx, csmsTx, station, manager>>
  BY DEF PipeAwaitsCSMS, Step, IInv, Types
<1>2. PICK m : m = csmsRx[1]
  OBVIOUS
<1>3. m = Head(csmsRx) /\ m \in Messages
  BY <1>1, <1>2, TailFacts
<1>4. OwnRequest(csmsRx') /\ (m.type = "call" => m.of = m.id)
  BY <1>1, <1>3, OwnRequestTail DEF IInv, RequestInv
<1>5. CASE m.type = "call"
  <2>1. /\ callBuf' = IF Len(callBuf) < CSMSCallQueueLen THEN Append(callBuf, m) ELSE callBuf
        /\ UNCHANGED <<pending, ids, calls>>
    BY <1>3, <1>5 DEF PipeAwaitsCSMS
  <2>2. OwnRequest(callBuf') /\ \A k \in 1..Len(callBuf') : callBuf'[k].type = "call"
    <3>1. CASE callBuf' = callBuf
      BY <3>1 DEF IInv, RequestInv
    <3>2. CASE callBuf' = Append(callBuf, m)
      <4>1. \A k \in 1..Len(callBuf') :
              \/ k \in 1..Len(callBuf) /\ callBuf'[k] = callBuf[k]
              \/ callBuf'[k] = m
        BY <1>3, <3>2, AppendFacts DEF IInv, Types
      <4> QED
        BY <1>4, <1>5, <4>1 DEF IInv, RequestInv, OwnRequest
    <3> QED
      BY <2>1, <3>1, <3>2
  <2>3. PassedInOrder' /\ \A i \in Nat : Passed(i)' => Passed(i)
    BY <1>1, <2>1, PassedFrame DEF IInv
  <2>4. AnsweredOnce'
    BY <1>1, <2>1, <2>3, AnsweredOnceTaken
  <2>5. CallOrder'
    BY <1>1, <2>1, CallOrderFrame DEF IInv
  <2>6. RequestInv'
    BY <1>1, <1>4, <2>1, <2>2 DEF IInv, RequestInv, OwnRequest, Genuine, Carries
  <2> QED
    BY <2>3, <2>4, <2>5, <2>6 DEF IInv
<1>6. CASE m.type # "call"
  <2>1. AnswerFromCSMS(m) /\ UNCHANGED callBuf
    BY <1>3, <1>6 DEF PipeAwaitsCSMS
  <2>2. /\ UNCHANGED <<ids, calls>>
        /\ pending' # <<>> => pending'[1].to # "csmsTx"
        /\ \A i \in Nat : Passed(i)' =>
             Passed(i) \/ (csmsRx[1].type = "answer" /\ csmsRx[1].id = i /\ i = LastId)
        /\ PassedInOrder'
    BY <1>1, <1>2, <1>6, <2>1, AnswerFromCSMSFacts
  <2>3. AnsweredOnce'
    BY <1>1, <2>2, AnsweredOnceTaken
  <2>4. CallOrder'
    BY <1>1, <2>2, CallOrderFrame DEF IInv
  <2>5. RequestInv'
    BY <1>1, <1>4, <2>1, <2>2 DEF IInv, RequestInv, OwnRequest, Genuine, Carries
  <2> QED
    BY <2>2, <2>3, <2>4, <2>5 DEF IInv
<1> QED
  BY <1>5, <1>6

LEMMA SendsIInv ==
  ASSUME IInv, Types', PipeSends
  PROVE  IInv'
<1>1. /\ pending # <<>> /\ pending' = <<>> /\ pending \in Slot(Sends)
      /\ UNCHANGED <<wire, csRx, csmsRx, callBuf, ids, calls, station, manager>>
  BY DEF PipeSends, Step, IInv, Types
<1>2. PICK s : s = pending[1]
  OBVIOUS
<1>3. s = Head(pending)
  BY <1>1, <1>2, SlotFacts
<1>4. LastId' = LastId /\ LastId \in Nat
  BY <1>1, LastOfType DEF LastId, IInv, Types
<1>5. CallOrder'
  BY <1>1, CallOrderFrame DEF IInv
<1>6. CASE s.to = "csmsTx" /\ csmsTx' = <<s.msg>> /\ UNCHANGED csTx
  <2>1. \A i : /\ ~InSend(i)'
               /\ InTx(i)' <=> InTx(i)
               /\ AtStation(i)' <=> AtStation(i)
    BY <1>1, <1>6 DEF InSend, InTx, AtStation
  <2>2. AnsweredOnce'
    <3>1. \A i \in Nat : Passed(i)' => Passed(i)
      BY <2>1 DEF Passed
    <3> QED
      BY <1>1, <1>4, <3>1, AnsweredOnceFrame DEF IInv
  <2>3. PassedInOrder'
    BY <1>1, <2>1 DEF IInv, PassedInOrder
  <2>4. csmsTx'[1] = s.msg /\ Carries(s.msg)
    BY <1>1, <1>2, <1>6 DEF IInv, RequestInv
  <2>5. RequestInv'
    BY <1>1, <2>4 DEF IInv, RequestInv, OwnRequest, Genuine, Carries
  <2> QED
    BY <1>5, <2>2, <2>3, <2>5 DEF IInv
<1>7. CASE s.to = "csTx" /\ csTx = <<>> /\ csTx' = <<s.msg>> /\ UNCHANGED csmsTx
  <2>1. csTx' # <<>> /\ csTx'[1] = s.msg
    BY <1>7
  <2>2. \A i : /\ ~InSend(i)' /\ ~InTx(i)
               /\ InTx(i)' <=> InSend(i)
               /\ AtStation(i)' <=> AtStation(i)
    BY <1>1, <1>2, <1>7, <2>1 DEF InSend, InTx, AtStation
  <2>3. AnsweredOnce'
    <3>1. \A i \in Nat : Passed(i)' => Passed(i)
      BY <2>2 DEF Passed
    <3> QED
      BY <1>1, <1>4, <3>1, AnsweredOnceFrame DEF IInv
  <2>4. PassedInOrder'
    BY <1>1, <2>2 DEF IInv, PassedInOrder
  <2>5. RequestInv'
    BY <1>1, <1>7 DEF IInv, RequestInv, OwnRequest, Genuine, Carries
  <2> QED
    BY <1>5, <2>3, <2>4, <2>5 DEF IInv
<1> QED
  BY <1>3, <1>6, <1>7 DEF PipeSends

-----------------------------------------------------------------------------
(* The theorems *)

LEMMA InitIInv == Init => IInv
<1> SUFFICES ASSUME Init PROVE IInv
  OBVIOUS
<1>1. Types
  BY InitTypes
<1>2. /\ Len(wire) = 0 /\ Len(csRx) = 0 /\ csTx = <<>> /\ csRx = <<>> /\ csmsTx = <<>>
      /\ Len(csmsRx) = 0 /\ Len(callBuf) = 0 /\ Len(calls) = 0 /\ pending = <<>>
      /\ LastId = 0 /\ station.calls = 0 /\ Len(station.answers) = 0
      /\ Len(manager.results) = 0
  BY DEF Init, LastId, LastOf
<1>3. CallOrder
  BY <1>2 DEF CallOrder, Between
<1>4. AnsweredOnce /\ PassedInOrder
  BY <1>2 DEF AnsweredOnce, PassedInOrder, Passed, InSend, InTx, AtStation
<1>5. RequestInv
  BY <1>2 DEF RequestInv, OwnRequest, Genuine
<1> QED
  BY <1>1, <1>3, <1>4, <1>5 DEF IInv

LEMMA NextIInv ==
  ASSUME IInv, [Next]_vars
  PROVE  IInv'
<1>0. Types
  BY DEF IInv
<1>1. CASE UNCHANGED vars
  <2>1. Types'
    BY <1>0, <1>1 DEF vars, channels, pipe, Types
  <2> QED
    BY <1>1, <2>1, NoMessageMoves DEF vars, pipe
<1>2. CASE \/ StationCall \/ StationRepeats \/ StationAnswers
           \/ StationSendsBadFrame \/ StationStopsReading \/ StationCloses
  BY <1>0, <1>2, StationTypes, StationIInv
<1>3. CASE ManagerCall \/ ManagerAnswers
  BY <1>0, <1>3, ManagerTypes, ManagerIInv
<1>4. CASE \/ ReadFromChargeStation \/ ReadPanics \/ ConnectionClosed \/ PublishToCSMS
           \/ WriteToChargeStation \/ \E g \in {"publisher", "writer"} : ContextDone(g)
  <2>1. Types'
    BY <1>0, <1>4, GatewayTypes
  <2>2. CASE ConnectionClosed \/ \E g \in {"publisher", "writer"} : ContextDone(g)
    BY <2>1, <2>2, NoMessageMoves DEF ConnectionClosed, ContextDone, pipe
  <2> QED
    BY <1>4, <2>1, <2>2, ReadIInv, PublishIInv, WriteIInv
<1>5. CASE \/ PipeLooksAtStation \/ PipeTakesStation \/ PipeTakesCSMS \/ PipeTakesBuffered
           \/ PipeAwaitsCSMS \/ PipeAwaitsStation \/ ResponseTimeout \/ PipeSends \/ PipeHalts
  <2>1. Types'
    BY <1>0, <1>5, PipeTypes
  <2>2. CASE ResponseTimeout \/ PipeHalts \/ (PipeLooksAtStation /\ csRx = <<>>)
    BY <2>1, <2>2, NoMessageMoves
       DEF ResponseTimeout, PipeHalts, PipeLooksAtStation, Step, pipe
  <2>3. CASE PipeTakesStation \/ PipeAwaitsStation \/ (PipeLooksAtStation /\ csRx # <<>>)
    BY <2>1, <2>3, FromStationIInv DEF PipeTakesStation, PipeAwaitsStation, PipeLooksAtStation
  <2> QED
    BY <1>5, <2>1, <2>2, <2>3, TakesCSMSIInv, TakesBufferedIInv, AwaitsCSMSIInv, SendsIInv
<1> QED
  BY <1>1, <1>2, <1>3, <1>4, <1>5 DEF Next

\* The invariant of the pipe goroutine and the goroutines around it.
THEOREM Invariant == Spec => []IInv
<1>1. IInv /\ [Next]_vars => IInv'
  BY NextIInv
<1> QED
  BY <1>1, InitIInv, PTL DEF Spec

\* The channels of NewPipe never exceed their capacities, nor the rings of Start
\* their lengths, whatever these are.
THEOREM WithinCapacity == Spec => []TypeOK
<1>1. ASSUME IInv PROVE TypeOK
  <2>1. Types
    BY <1>1 DEF IInv
  <2>2. Len(csRx) <= 1 /\ Len(csTx) <= 1 /\ Len(csmsTx) <= 1 /\ Len(pending) <= 1
    BY <2>1, SlotLen DEF Types
  <2> QED
    BY <2>1, <2>2 DEF Types, TypeOK
<1> QED
  BY <1>1, Invariant, PTL

\* The station gets at most one answer to a call, in the order of its calls,
\* because pipe.go lets an answer pass only when it answers the last call.
THEOREM StationAnswersInOrder == Spec => []AnswersInOrder
<1>1. ASSUME IInv PROVE AnswersInOrder
  <2>1. DOMAIN station.answers = 1..Len(station.answers)
    BY <1>1, LenProperties DEF IInv, Types, Stations
  <2> QED
    BY <1>1, <2>1 DEF IInv, PassedInOrder, AnswersInOrder
<1> QED
  BY <1>1, Invariant, PTL

\* pipe.go merges the request of the call into the station's answer before it
\* reaches the manager, and forwards no other answer.
THEOREM RequestMerged == Spec => []ResultCarriesItsRequest
<1>1. ASSUME IInv PROVE ResultCarriesItsRequest
  <2>1. DOMAIN manager.results = 1..Len(manager.results)
    BY <1>1, LenProperties DEF IInv, Types, Managers
  <2> QED
    BY <1>1, <2>1 DEF IInv, RequestInv, ResultCarriesItsRequest
<1> QED
  BY <1>1, Invariant, PTL
=============================================================================
