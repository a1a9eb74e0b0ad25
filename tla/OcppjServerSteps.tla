-------------------------- MODULE OcppjServerSteps --------------------------
(***************************************************************************)
(* Proofs about OcppjServer, first part: the inductive invariant IInv, which *)
(* says what holds of a station on its first connection as long as no      *)
(* request times out, whatever happens to the other stations; that it holds *)
(* at the start; and that the goroutines of the application and those that *)
(* open and close connections keep it.                                     *)
(***************************************************************************)
EXTENDS OcppjServer, TLAPS

(* The provers have more than their default time for the leaves below.     *)
USE SMTT(20), ZenonT(20)

Slot(S) == {<<>>} \union {<<x>> : x \in S}
Frames == [c : Clients \union {NoFrame.c}, r : Requests \union {NoReq},
           q : Queues \union {NoQueue}, then : {"idle", "answer", "timeoutCancel", "writeCancel"}]

Base == use \in Uses /\ timeouts \in Nat

Types ==
  /\ running \in BOOLEAN /\ cbLock \in BOOLEAN
  /\ queueMap \in [Clients -> Queues \union {NoQueue}]
  /\ heap \in [Queues -> Seq(Requests)]
  /\ pending \in [Clients -> Requests \union {NoReq}]
  /\ requestChannel \in Seq(Clients)
  /\ readyForDispatch \in Slot(Clients)
  /\ ctx \in [Clients -> {"none", "idle", "armed"}]
  /\ DOMAIN pump = {"c", "rdy", "q"}
  /\ pump.q \in Queues \union {NoQueue}
  /\ pc = [t \in Threads |-> pc[t]]
  /\ frame \in [Threads -> Frames]
  /\ callbacks \in [Clients -> Seq(Requests)]
  /\ connected \subseteq Clients
  /\ connects \in [Clients -> 0..MaxConnects]
  /\ wire \in [Clients -> Seq(Requests)]
  /\ answered \subseteq Requests
  /\ outcome = [r \in Requests |-> outcome[r]]

\* A goroutine between the look at the queue and the callback.
Completing == {"complete", "pop", "delete", "ready"}

\* Where the pump can be when no request times out.
PumpInv ==
  /\ timerC = <<>>
  /\ pc[Pump] \in {"loop", "select", "check", "dispatch", "add", "write", "writeCancel",
                   "stopped", "panic"} \union Completing
  /\ pc[Pump] \in {"check", "dispatch"} => pump.c \in Clients
  /\ pc[Pump] \in {"add", "write", "writeCancel"} \union Completing =>
       pump.c \in Clients /\ frame[Pump].c = pump.c
  /\ pc[Pump] = "dispatch" => pump.rdy /\ pump.q # NoQueue
  /\ pc[Pump] \in {"add", "write"} => frame[Pump].r \in Requests
  /\ pc[Pump] \in Completing => frame[Pump].then = "writeCancel"
  /\ pc[Pump] = "stopped" => ~running

\* A station before or on its first connection.
First(c) == connects[c] = IF c \in connected THEN 1 ELSE 0

\* Every goroutine works on the queue, the state and the callbacks of one station.
\* A request that the pump gives up is of a station that is gone.
StationInv ==
  /\ \A c \in connected : connects[c] >= 1
  /\ \A c \in Clients : queueMap[c] # NoQueue => queueMap[c][1] = c
  /\ \A c \in Clients : pc[open(c)] = "create" => connects[c] >= 1
  /\ \A c \in Clients : pc[read(c)] \in Completing \union {"answer"} => frame[read(c)].c = c
  /\ \A t \in Threads : pc[t] = "pop" => frame[t].q \in Queues /\ frame[t].q[1] = frame[t].c
  /\ \A r \in DOMAIN Target : pc[send(r)] = "push" =>
       frame[send(r)].q \in Queues /\ frame[send(r)].q[1] = Target[r]
  /\ pc[Pump] \in Completing \union {"writeCancel"} => ~First(pump.c)
  /\ \A c \in Clients : \A i \in 1..Len(callbacks[c]) :
       callbacks[c][i] \in DOMAIN Target /\ Target[callbacks[c][i]] = c

\* callbacksMutex is held by one goroutine, as long as TryQueue runs.
Holds(r) == pc[send(r)] \in {"try", "push", "notify", "blocked"}

LockInv ==
  \A r \in DOMAIN Target : Holds(r) => cbLock /\ \A s \in DOMAIN Target : Holds(s) => s = r

-----------------------------------------------------------------------------
(* The state of one station c on its first connection.                     *)

Queue(c) == heap[<<c, 1>>]
Checking(c) == pc[Pump] \in {"check", "dispatch"} /\ pump.c = c /\ pump.rdy /\ pump.q # NoQueue
Adding(c) == pc[Pump] = "add" /\ pump.c = c
Writing(c) == pc[Pump] = "write" /\ pump.c = c
Served == pc[Pump] # "stopped"

ControlInv(c) ==
  /\ pc[close(c)] = "idle"
  /\ c \notin connected => pc[read(c)] = "idle" /\ pc[open(c)] = "idle"
  /\ queueMap[c] # NoQueue => queueMap[c] = <<c, 1>> /\ c \in connected
  /\ pc[read(c)] \in {"idle", "reading", "answer"} \union Completing
  /\ pc[read(c)] \in Completing => frame[read(c)].then = "answer"
  /\ pc[read(c)] = "pop" => frame[read(c)].q = <<c, 1>>
  /\ \A r \in DOMAIN Target : Target[r] = c /\ pc[send(r)] = "push" =>
       frame[send(r)].q = <<c, 1>>

\* Of the request in flight, from the pump's look at the queue until readyForDispatch
\* tells the pump that its answer has come. The context is armed in between.
FlightInv(c) ==
  /\ pending[c] # NoReq =>
       Writing(c) \/ (ctx[c] = "armed" /\ pending[c] \in Range(wire[c]))
  /\ pc[read(c)] \in Completing => ctx[c] = "armed"
  /\ readyForDispatch = <<c>> => ctx[c] = "armed"
  /\ ctx[c] = "armed" => ~Checking(c) /\ ~Adding(c) /\ ~Writing(c)
  /\ ctx[c] = "armed" \/ Adding(c) \/ Writing(c) => queueMap[c] # NoQueue
  /\ Checking(c) => pump.q = queueMap[c]
  /\ Adding(c) \/ Writing(c) => Queue(c) # <<>> /\ frame[Pump].r = Queue(c)[1]
  /\ Writing(c) => pending[c] = frame[Pump].r /\ pending[c] \notin Range(wire[c])
  /\ pc[read(c)] \in {"complete", "pop", "delete"} => frame[read(c)].r = pending[c]
  /\ pc[read(c)] = "delete" => pending[c] \in answered /\ pending[c] \notin Range(Queue(c))
  /\ pc[read(c)] = "ready" => pending[c] = NoReq
  /\ pending[c] # NoReq /\ pc[read(c)] # "delete" =>
       Queue(c) # <<>> /\ pending[c] = Queue(c)[1]
  /\ readyForDispatch = <<c>> => pending[c] = NoReq /\ pc[read(c)] \notin Completing

\* What is queued was not written, but for the request in flight.
QueueInv(c) ==
  /\ \A i, j \in 1..Len(Queue(c)) : Queue(c)[i] = Queue(c)[j] => i = j
  /\ \A i \in 1..Len(Queue(c)) :
       Queue(c)[i] \in Range(wire[c]) => i = 1 /\ Queue(c)[i] = pending[c]
  /\ \A r \in DOMAIN Target : Target[r] = c /\ pc[send(r)] \in {"idle", "try", "push"} =>
       r \notin Range(Queue(c)) \union Range(wire[c])
  /\ \A i \in 1..Len(wire[c]) : wire[c][i] \in answered \/ wire[c][i] = pending[c]

\* The read goroutine has taken its request from the queue and not yet called back.
Brought(c) == IF pc[read(c)] \in {"delete", "ready", "answer"} THEN 1 ELSE 0

\* The callbacks are those of the answer brought, of the queue, and of the request
\* that is about to be queued, in this order.
OrderInv(c) ==
  /\ \A i \in 1..Len(Queue(c)) : callbacks[c][Brought(c) + i] = Queue(c)[i]
  /\ \A r \in DOMAIN Target : Target[r] = c /\ pc[send(r)] = "push" =>
       /\ Len(callbacks[c]) = Brought(c) + Len(Queue(c)) + 1
       /\ callbacks[c][Brought(c) + Len(Queue(c)) + 1] = r
  /\ \/ Len(callbacks[c]) = Brought(c) + Len(Queue(c))
     \/ \E r \in DOMAIN Target : Target[r] = c /\ pc[send(r)] = "push"

\* What is left of this when the pump has stopped and the queues are gone.
AnswerInv(c) ==
  /\ \A i, j \in 1..Len(wire[c]) : wire[c][i] = wire[c][j] => i = j
  /\ \A i \in 1..(Len(wire[c]) - 1) : wire[c][i] \in answered
  /\ pc[read(c)] \in {"complete", "pop"} => pending[c] \in answered
  /\ pc[read(c)] \in Completing \union {"answer"} =>
       callbacks[c] # <<>> /\ callbacks[c][1] = frame[read(c)].r
  /\ pending[c] # NoReq /\ pending[c] \notin answered =>
       /\ Len(callbacks[c]) >= Brought(c) + 1
       /\ callbacks[c][Brought(c) + 1] = pending[c]
  /\ \A r \in DOMAIN Target : Target[r] = c => outcome[r] \in {"none", r}

ClientInv(c) ==
  /\ ControlInv(c) /\ AnswerInv(c)
  /\ Served => FlightInv(c) /\ QueueInv(c) /\ OrderInv(c)

CalmInv ==
  /\ Types /\ PumpInv /\ StationInv /\ LockInv
  /\ \A c \in Clients : First(c) => ClientInv(c)

\* Nothing is on the way to a station without a connection.
ClosedInv ==
  /\ wire = [c \in Clients |-> wire[c]]
  /\ \A c \in Clients : c \notin connected => wire[c] = <<>>

\* No deadline has passed, the open goroutines do no more than create a queue, and
\* a goroutine of an earlier connection belongs to a station that has left its first one.
OldInv ==
  \A c \in Clients :
    /\ pc[timer(c)] = "idle" /\ pc[open(c)] \in {"idle", "create"}
    /\ pc[oldOpen(c)] # "idle" \/ pc[oldRead(c)] # "idle" => connects[c] >= 2
    /\ pc[oldRead(c)] \in Completing \union {"answer"} => frame[oldRead(c)].c = c

IInv == Base /\ ClosedInv /\ (timeouts = 0 => CalmInv /\ OldInv)

-----------------------------------------------------------------------------
(* Stations, goroutines, sequences, channels of capacity one.              *)

LEMMA TargetFacts ==
  ASSUME use \in Uses
  PROVE  /\ DOMAIN Target \subseteq Requests
         /\ \A r \in DOMAIN Target : Target[r] \in Clients
         /\ Range(Target) \subseteq Clients
<1>1. use.target \in UNION {[R -> Clients] : R \in SUBSET Requests}
  BY OcppjServerAssumption
<1>2. PICK R \in SUBSET Requests : use.target \in [R -> Clients]
  BY <1>1
<1> QED BY <1>2 DEF Target, Range

LEMMA ThreadFacts ==
  /\ Pump \in Threads
  /\ \A r \in Requests :
       /\ send(r) \in Threads /\ send(r) # Pump
       /\ \A s \in Requests : send(r) = send(s) => r = s
       /\ \A c \in Clients : send(r) \notin {read(c), open(c), close(c)}
  /\ \A c \in Clients :
       /\ {read(c), open(c), close(c)} \subseteq Threads
       /\ Pump \notin {read(c), open(c), close(c)}
       /\ \A d \in Clients : /\ read(c) # open(d) /\ read(c) # close(d) /\ open(c) # close(d)
                             /\ read(c) = read(d) => c = d
                             /\ open(c) = open(d) => c = d
                             /\ close(c) = close(d) => c = d
BY DEF Threads, Pump, send, read, open, close

LEMMA OldFacts ==
  \A c \in Clients :
    /\ timer(c) \in Threads /\ oldRead(c) \in Threads /\ oldOpen(c) \in Threads
    /\ timer(c) # Pump /\ oldRead(c) # Pump /\ oldOpen(c) # Pump
    /\ \A r \in Requests : timer(c) # send(r) /\ oldRead(c) # send(r) /\ oldOpen(c) # send(r)
    /\ \A d \in Clients :
         /\ timer(c) # read(d) /\ timer(c) # open(d) /\ timer(c) # close(d)
         /\ oldRead(c) # read(d) /\ oldRead(c) # open(d) /\ oldRead(c) # close(d)
         /\ oldOpen(c) # read(d) /\ oldOpen(c) # open(d) /\ oldOpen(c) # close(d)
         /\ timer(c) # oldRead(d) /\ timer(c) # oldOpen(d) /\ oldRead(c) # oldOpen(d)
         /\ timer(c) = timer(d) => c = d
         /\ oldRead(c) = oldRead(d) => c = d
         /\ oldOpen(c) = oldOpen(d) => c = d
BY DEF Threads, Pump, send, read, open, close, timer, oldRead, oldOpen

LEMMA QueueFacts ==
  /\ NoQueue \notin Queues /\ 1 \in 1..MaxConnects
  /\ \A c \in Clients : <<c, 1>> \in Queues
  /\ \A c, d \in Clients : <<c, 1>> = <<d, 1>> => c = d
BY OcppjServerAssumption DEF Queues

LEMMA AppendFacts ==
  ASSUME NEW S, NEW q \in Seq(S), NEW e \in S
  PROVE  /\ Append(q, e) \in Seq(S) /\ Len(q) \in Nat
         /\ Len(Append(q, e)) = Len(q) + 1
         /\ \A k \in 1..Len(q) : Append(q, e)[k] = q[k]
         /\ Append(q, e)[Len(q) + 1] = e
         /\ Append(q, e) # <<>>
         /\ Range(Append(q, e)) = Range(q) \union {e}
<1>1. Append(q, e) \in Seq(S) /\ Len(q) \in Nat /\ Len(Append(q, e)) = Len(q) + 1
  OBVIOUS
<1>2. /\ \A k \in 1..Len(q) : Append(q, e)[k] = q[k]
      /\ Append(q, e)[Len(q) + 1] = e
  OBVIOUS
<1>3. Append(q, e) # <<>>
  BY <1>1
<1>4. Range(Append(q, e)) = Range(q) \union {e}
  BY <1>2 DEF Range
<1> QED BY <1>4

LEMMA TailFacts ==
  ASSUME NEW S, NEW q \in Seq(S), q # <<>>
  PROVE  /\ Head(q) = q[1] /\ Head(q) \in S
         /\ Len(q) \in Nat /\ Len(q) > 0
         /\ Tail(q) \in Seq(S)
         /\ Len(Tail(q)) = Len(q) - 1
         /\ \A k \in 1..Len(Tail(q)) : /\ k + 1 \in 1..Len(q) /\ k + 1 # 1
                                       /\ Tail(q)[k] = q[k + 1]
         /\ Range(Tail(q)) \subseteq Range(q) /\ q[1] \in Range(q)
<1>1. /\ Head(q) = q[1] /\ Head(q) \in S
      /\ Len(q) \in Nat /\ Len(q) > 0
      /\ Tail(q) \in Seq(S)
      /\ Len(Tail(q)) = Len(q) - 1
      /\ \A k \in 1..(Len(q) - 1) : Tail(q)[k] = q[k + 1]
  OBVIOUS
<1>2. \A k \in 1..Len(Tail(q)) : k + 1 \in 1..Len(q) /\ k + 1 # 1 /\ Tail(q)[k] = q[k + 1]
  OBVIOUS
<1>3. DOMAIN q = 1..Len(q) /\ DOMAIN Tail(q) = 1..Len(Tail(q))
  OBVIOUS
<1>4. ASSUME NEW x \in Range(Tail(q))
      PROVE  x \in Range(q)
  BY DEF Range
<1>5. q[1] \in Range(q)
  BY DEF Range
<1> QED BY <1>4, <1>5

LEMMA RangeFacts ==
  ASSUME NEW S, NEW q \in Seq(S)
  PROVE  /\ Len(q) \in Nat /\ (q = <<>> <=> Len(q) = 0)
         /\ \A k \in 1..Len(q) : q[k] \in S /\ q[k] \in Range(q)
         /\ \A x \in Range(q) : \E k \in 1..Len(q) : q[k] = x
BY DEF Range

LEMMA GotoFacts ==
  ASSUME pc = [t \in Threads |-> pc[t]], NEW t \in Threads, NEW l, Goto(t, l)
  PROVE  /\ pc' = [u \in Threads |-> pc'[u]] /\ pc'[t] = l
         /\ \A u \in Threads : u # t => pc'[u] = pc[u]
BY DEF Goto

LEMMA ReturnFacts ==
  ASSUME frame \in [Threads -> Frames], NEW t \in Threads, Return(t)
  PROVE  /\ frame' \in [Threads -> Frames]
         /\ \A u \in Threads : u # t => frame'[u] = frame[u]
<1>1. NoFrame \in Frames
  BY DEF NoFrame, Frames
<1> QED BY <1>1 DEF Return

LEMMA FrameFacts ==
  ASSUME NEW f \in Frames, NEW q \in Queues \union {NoQueue}
  PROVE  /\ f.c \in Clients \union {NoFrame.c} /\ f.r \in Requests \union {NoReq}
         /\ [f EXCEPT !.q = q] \in Frames
         /\ [f EXCEPT !.q = q].q = q /\ [f EXCEPT !.q = q].c = f.c
         /\ [f EXCEPT !.q = q].r = f.r /\ [f EXCEPT !.q = q].then = f.then
BY DEF Frames

LEMMA InitIInv == Init => IInv
<1> SUFFICES ASSUME Init PROVE IInv
  OBVIOUS
<1>1. Base
  BY DEF Init, Base
<1>2. NoFrame \in Frames
  BY DEF NoFrame, Frames
<1>3. Types
  <2>1. frame \in [Threads -> Frames] /\ pc = [t \in Threads |-> pc[t]]
    BY <1>2 DEF Init
  <2>2. /\ heap \in [Queues -> Seq(Requests)] /\ callbacks \in [Clients -> Seq(Requests)]
        /\ wire \in [Clients -> Seq(Requests)] /\ requestChannel \in Seq(Clients)
    BY DEF Init
  <2>3. DOMAIN pump = {"c", "rdy", "q"} /\ pump.q = NoQueue
    BY DEF Init
  <2>4. connects \in [Clients -> 0..MaxConnects] /\ outcome = [r \in Requests |-> outcome[r]]
    BY OcppjServerAssumption DEF Init
  <2> QED BY <2>1, <2>2, <2>4, ZenonT(20) DEF Init, Types, Slot
<1>4. PumpInv /\ StationInv
  BY TargetFacts, ThreadFacts DEF Init, PumpInv, StationInv, Completing
<1>5. LockInv
  BY TargetFacts, ThreadFacts DEF Init, LockInv, Holds
<1>6. Range(<<>>) = {} /\ Len(<<>>) = 0
  BY DEF Range
<1>7. ASSUME NEW c \in Clients
      PROVE  ClientInv(c)
  <2>1. /\ pc[close(c)] = "idle" /\ pc[read(c)] = "idle" /\ pc[open(c)] = "idle"
        /\ queueMap[c] = NoQueue /\ pending[c] = NoReq /\ readyForDispatch = <<>>
        /\ Queue(c) = <<>> /\ wire[c] = <<>> /\ callbacks[c] = <<>> /\ ctx[c] = "none"
        /\ pc[Pump] = "loop"
        /\ \A r \in DOMAIN Target : pc[send(r)] = "idle" /\ outcome[r] = "none"
    BY TargetFacts, ThreadFacts, QueueFacts DEF Init, Queue
  <2>2. ControlInv(c) /\ FlightInv(c)
    BY <2>1 DEF ControlInv, FlightInv, Completing, Checking, Adding, Writing
  <2>3. Brought(c) = 0
    BY <2>1 DEF Brought
  <2>4. QueueInv(c) /\ OrderInv(c) /\ AnswerInv(c)
    BY <1>6, <2>1, <2>3 DEF QueueInv, OrderInv, AnswerInv, Completing
  <2> QED BY <2>2, <2>4 DEF ClientInv
<1>8. ClosedInv
  BY DEF Init, ClosedInv
<1>9. OldInv
  BY OldFacts, ThreadFacts DEF Init, OldInv, Completing
<1> QED BY <1>1, <1>3, <1>4, <1>5, <1>7, <1>8, <1>9 DEF IInv, CalmInv

-----------------------------------------------------------------------------
(* A step of another station, or one that leaves a part of the state of c  *)
(* alone.                                                                  *)

KeepsThreads(c) ==
  /\ pc'[read(c)] = pc[read(c)] /\ pc'[open(c)] = pc[open(c)] /\ pc'[close(c)] = pc[close(c)]
  /\ frame'[read(c)] = frame[read(c)]
  /\ \A r \in DOMAIN Target : Target[r] = c =>
       /\ pc'[send(r)] \in {"idle", "try", "push"} => pc[send(r)] \in {"idle", "try", "push"}
       /\ pc'[send(r)] = "push" =>
            pc[send(r)] = "push" /\ frame'[send(r)] = frame[send(r)]
       /\ pc[send(r)] = "push" => pc'[send(r)] = "push"

KeepsData(c) ==
  /\ queueMap'[c] = queueMap[c] /\ heap'[<<c, 1>>] = heap[<<c, 1>>]
  /\ pending'[c] = pending[c] /\ wire'[c] = wire[c] /\ callbacks'[c] = callbacks[c]
  /\ c \in connected' <=> c \in connected
  /\ answered \subseteq answered'
  /\ \A r \in DOMAIN Target : Target[r] = c => outcome'[r] = outcome[r]

KeepsPump(c) ==
  /\ Served' => Served
  /\ ctx'[c] = ctx[c]
  /\ Checking(c)' => Checking(c) /\ pump'.q = pump.q
  /\ Adding(c)' => Adding(c)
  /\ Writing(c)' <=> Writing(c)
  /\ Adding(c)' \/ Writing(c)' => frame'[Pump].r = frame[Pump].r
  /\ readyForDispatch' = <<c>> => readyForDispatch = <<c>>

LEMMA ControlFrame ==
  ASSUME use' = use, NEW c \in Clients, ControlInv(c), KeepsThreads(c),
         queueMap'[c] = queueMap[c], c \in connected' <=> c \in connected
  PROVE  ControlInv(c)'
BY DEF ControlInv, KeepsThreads, Target

LEMMA FlightFrame ==
  ASSUME NEW c \in Clients, FlightInv(c), KeepsPump(c),
         pc'[read(c)] = pc[read(c)], frame'[read(c)] = frame[read(c)],
         queueMap'[c] = queueMap[c], heap'[<<c, 1>>] = heap[<<c, 1>>],
         pending'[c] = pending[c], wire'[c] = wire[c], answered \subseteq answered'
  PROVE  FlightInv(c)'
<1>1. Queue(c)' = Queue(c)
  BY DEF Queue
<1> QED BY <1>1 DEF FlightInv, KeepsPump

LEMMA QueueFrame ==
  ASSUME use' = use, NEW c \in Clients, QueueInv(c),
         heap'[<<c, 1>>] = heap[<<c, 1>>],
         pending'[c] = pending[c], wire'[c] = wire[c], answered \subseteq answered',
         \A r \in DOMAIN Target : Target[r] = c /\ pc'[send(r)] \in {"idle", "try", "push"} =>
           pc[send(r)] \in {"idle", "try", "push"}
  PROVE  QueueInv(c)'
<1>1. Queue(c)' = Queue(c)
  BY DEF Queue
<1>2. ASSUME NEW r \in DOMAIN Target, Target[r] = c, pc'[send(r)] \in {"idle", "try", "push"}
      PROVE  r \notin Range(Queue(c)) \union Range(wire[c])
  <2>1. pc[send(r)] \in {"idle", "try", "push"}
    BY <1>2
  <2> QED BY <1>2 DEF QueueInv
<1> QED BY <1>1 DEF QueueInv, Target

LEMMA OrderFrame ==
  ASSUME use' = use, NEW c \in Clients, OrderInv(c),
         heap'[<<c, 1>>] = heap[<<c, 1>>], callbacks'[c] = callbacks[c],
         Brought(c)' = Brought(c),
         \A r \in DOMAIN Target : Target[r] = c =>
           (pc'[send(r)] = "push" <=> pc[send(r)] = "push")
  PROVE  OrderInv(c)'
<1>1. Queue(c)' = Queue(c)
  BY DEF Queue
<1> QED BY <1>1 DEF OrderInv, Target

LEMMA AnswerFrame ==
  ASSUME use' = use, NEW c \in Clients, AnswerInv(c),
         wire'[c] = wire[c], answered \subseteq answered',
         pc'[read(c)] = pc[read(c)], frame'[read(c)] = frame[read(c)],
         pending'[c] = pending[c], callbacks'[c] = callbacks[c],
         \A r \in DOMAIN Target : Target[r] = c => outcome'[r] = outcome[r]
  PROVE  AnswerInv(c)'
<1>1. Brought(c)' = Brought(c)
  BY DEF Brought
<1>2. \A r \in DOMAIN Target' : Target'[r] = c => outcome'[r] \in {"none", r}
  BY DEF AnswerInv, Target
<1>3. \A i \in 1..(Len(wire'[c]) - 1) : wire'[c][i] \in answered'
  BY DEF AnswerInv
<1> QED BY <1>1, <1>2 DEF AnswerInv

LEMMA ClientFrame ==
  ASSUME use' = use, NEW c \in Clients, ClientInv(c),
         KeepsThreads(c), KeepsData(c), KeepsPump(c)
  PROVE  ClientInv(c)'
<1>1. ControlInv(c)' /\ AnswerInv(c)'
  BY ControlFrame, AnswerFrame DEF ClientInv, KeepsThreads, KeepsData
<1>2. ASSUME Served'
      PROVE  FlightInv(c)' /\ QueueInv(c)' /\ OrderInv(c)'
  <2>1. FlightInv(c) /\ QueueInv(c) /\ OrderInv(c)
    BY <1>2 DEF ClientInv, KeepsPump
  <2>2. FlightInv(c)'
    BY <2>1, FlightFrame DEF KeepsThreads, KeepsData
  <2>3. QueueInv(c)'
    BY <2>1, QueueFrame DEF KeepsThreads, KeepsData
  <2>4. Brought(c)' = Brought(c)
    BY DEF Brought, KeepsThreads
  <2>5. OrderInv(c)'
    BY <2>1, <2>4, OrderFrame DEF KeepsThreads, KeepsData
  <2> QED BY <2>2, <2>3, <2>5
<1> QED BY <1>1, <1>2 DEF ClientInv

LEMMA PumpKept ==
  ASSUME pc'[Pump] = pc[Pump], frame'[Pump] = frame[Pump], pump' = pump, ctx' = ctx,
         readyForDispatch' = readyForDispatch, NEW c
  PROVE  KeepsPump(c)
BY DEF KeepsPump, Checking, Adding, Writing, Served

LEMMA ThreadsKept ==
  ASSUME use \in Uses, NEW c \in Clients, NEW t \in Threads,
         \A u \in Threads : u # t => pc'[u] = pc[u] /\ frame'[u] = frame[u],
         t \notin {read(c), open(c), close(c)},
         \A r \in DOMAIN Target : Target[r] = c /\ send(r) = t =>
           /\ pc'[t] # "push" /\ pc[t] # "push"
           /\ pc'[t] \in {"idle", "try"} => pc[t] \in {"idle", "try"}
  PROVE  KeepsThreads(c)
BY TargetFacts, ThreadFacts DEF KeepsThreads

LEMMA PumpFrame ==
  ASSUME PumpInv, pc'[Pump] = pc[Pump], frame'[Pump] = frame[Pump], pump' = pump,
         timerC' = timerC, running' => running
  PROVE  PumpInv'
BY DEF PumpInv

LEMMA LockFrame ==
  ASSUME LockInv, use' = use, cbLock' = cbLock,
         \A r \in DOMAIN Target : Holds(r)' <=> Holds(r)
  PROVE  LockInv'
BY DEF LockInv, Target

CallbacksOf(list, c) ==
  \A i \in 1..Len(list) : list[i] \in DOMAIN Target /\ Target[list[i]] = c

\* What a step of goroutine t, which leaves the connections alone, has to see to.
LEMMA StationFrame ==
  ASSUME use \in Uses, use' = use, StationInv, NEW t \in Threads,
         \A u \in Threads : u # t => pc'[u] = pc[u] /\ frame'[u] = frame[u],
         connects' = connects, connected' = connected,
         queueMap' = queueMap \/ \A c \in Clients : queueMap'[c] # NoQueue => queueMap'[c][1] = c,
         callbacks' = callbacks \/ \A c \in Clients : CallbacksOf(callbacks'[c], c),
         pc'[t] = "pop" => frame'[t].q \in Queues /\ frame'[t].q[1] = frame'[t].c,
         \A c \in Clients : /\ t = open(c) => pc'[t] # "create"
                            /\ t = read(c) /\ pc'[t] \in Completing \union {"answer"} =>
                                 frame'[t].c = c,
         \A r \in DOMAIN Target : t = send(r) /\ pc'[t] = "push" =>
           frame'[t].q \in Queues /\ frame'[t].q[1] = Target[r],
         t # Pump => pump' = pump,
         t = Pump /\ pc'[t] \in Completing \union {"writeCancel"} => ~First(pump'.c)
  PROVE  StationInv'
<1>1. \A c \in connected' : connects'[c] >= 1
  BY DEF StationInv
<1>2. \A c \in Clients : queueMap'[c] # NoQueue => queueMap'[c][1] = c
  BY DEF StationInv
<1>3. \A c \in Clients : pc'[open(c)] = "create" => connects'[c] >= 1
  BY ThreadFacts DEF StationInv
<1>4. \A c \in Clients : pc'[read(c)] \in Completing \union {"answer"} =>
        frame'[read(c)].c = c
  BY ThreadFacts DEF StationInv
<1>5. \A u \in Threads : pc'[u] = "pop" =>
        frame'[u].q \in Queues /\ frame'[u].q[1] = frame'[u].c
  BY DEF StationInv
<1>6. \A r \in DOMAIN Target : pc'[send(r)] = "push" =>
        frame'[send(r)].q \in Queues /\ frame'[send(r)].q[1] = Target[r]
  BY ThreadFacts, TargetFacts DEF StationInv
<1>7. pc'[Pump] \in Completing \union {"writeCancel"} => ~First(pump'.c)
  BY ThreadFacts DEF StationInv
<1>8. \A c \in Clients : \A i \in 1..Len(callbacks'[c]) :
        callbacks'[c][i] \in DOMAIN Target /\ Target[callbacks'[c][i]] = c
  BY DEF StationInv, CallbacksOf
<1>9. Target' = Target /\ \A c : First(c)' <=> First(c)
  BY DEF Target, First
<1>10. Completing' = Completing
  OBVIOUS
<1> QED
  <2>1. pc'[Pump] \in Completing \union {"writeCancel"} => ~First(pump.c)'
    BY <1>7 DEF First
  <2> QED BY <1>3, <1>4, <1>6, <1>8, <1>9, <2>1 DEF StationInv

-----------------------------------------------------------------------------
(* Goroutines of the application.                                          *)

LEMMA WaitForIsRunningStep ==
  ASSUME Base, CalmInv, NEW r \in DOMAIN Target, WaitForIsRunning(r)
  PROVE  CalmInv'
<1>0. /\ Types /\ PumpInv /\ StationInv /\ LockInv
      /\ \A c \in Clients : First(c) => ClientInv(c)
  BY DEF CalmInv
<1>1. use \in Uses /\ DOMAIN Target \subseteq Requests /\ r \in Requests
  BY TargetFacts DEF Base
<1>2. /\ pc[send(r)] = "idle" /\ ~cbLock /\ cbLock' = TRUE /\ Goto(send(r), "try")
      /\ use' = use /\ running' = running /\ queueMap' = queueMap /\ heap' = heap
      /\ pending' = pending /\ requestChannel' = requestChannel /\ timerC' = timerC
      /\ readyForDispatch' = readyForDispatch /\ ctx' = ctx /\ pump' = pump
      /\ frame' = frame /\ callbacks' = callbacks
      /\ connected' = connected /\ connects' = connects /\ wire' = wire
      /\ answered' = answered /\ outcome' = outcome /\ Target' = Target
  BY DEF WaitForIsRunning, channels, contexts, network, Target
<1>3. /\ pc' = [u \in Threads |-> pc'[u]] /\ pc'[send(r)] = "try"
      /\ \A u \in Threads : u # send(r) => pc'[u] = pc[u]
  BY <1>0, <1>1, <1>2, GotoFacts, ThreadFacts DEF Types
<1>4. Types' /\ PumpInv'
  BY <1>0, <1>1, <1>2, <1>3, PumpFrame, ThreadFacts DEF Types
<1>5. StationInv'
  BY <1>0, <1>1, <1>2, <1>3, StationFrame, ThreadFacts
<1>6. LockInv'
  <2>1. \A s \in DOMAIN Target : ~Holds(s)
    BY <1>0, <1>2 DEF LockInv
  <2> QED BY <1>1, <1>2, <1>3, <2>1, ThreadFacts DEF LockInv, Holds
<1>7. ASSUME NEW c \in Clients, First(c)
      PROVE  ClientInv(c)'
  <2>1. KeepsPump(c)
    BY <1>1, <1>2, <1>3, PumpKept, ThreadFacts
  <2>2. KeepsThreads(c)
    BY <1>1, <1>2, <1>3, ThreadsKept, ThreadFacts
  <2>3. KeepsData(c)
    BY <1>2 DEF KeepsData
  <2> QED BY <1>0, <1>2, <1>7, <2>1, <2>2, <2>3, ClientFrame
<1> QED BY <1>2, <1>4, <1>5, <1>6, <1>7 DEF CalmInv, First

LEMMA SendRequestAsyncStep ==
  ASSUME Base, CalmInv, NEW r \in DOMAIN Target, SendRequestAsync(r)
  PROVE  CalmInv'
<1>0. /\ Types /\ PumpInv /\ StationInv /\ LockInv
      /\ \A c \in Clients : First(c) => ClientInv(c)
  BY DEF CalmInv
<1>1. PICK d \in Clients :
        d = Target[r] /\ use \in Uses /\ r \in Requests /\ DOMAIN Target \subseteq Requests
  BY TargetFacts DEF Base
<1>2. /\ pc[send(r)] = "try" \/ (pc[send(r)] = "idle" /\ ~cbLock)
      /\ use' = use /\ running' = running /\ queueMap' = queueMap /\ heap' = heap
      /\ pending' = pending /\ requestChannel' = requestChannel /\ timerC' = timerC
      /\ readyForDispatch' = readyForDispatch /\ ctx' = ctx /\ pump' = pump
      /\ connected' = connected /\ connects' = connects /\ wire' = wire
      /\ answered' = answered /\ outcome' = outcome /\ Target' = Target
  BY DEF SendRequestAsync, channels, contexts, network, Target
<1>3. /\ frame \in [Threads -> Frames] /\ pc = [t \in Threads |-> pc[t]]
      /\ callbacks \in [Clients -> Seq(Requests)]
      /\ queueMap \in [Clients -> Queues \union {NoQueue}]
  BY <1>0 DEF Types
<1>4. /\ pc[send(r)] \in {"idle", "try"}
      /\ \A s \in DOMAIN Target : s # r => ~Holds(s)
  BY <1>0, <1>2 DEF LockInv, Holds
<1>5. CASE running /\ queueMap[d] # NoQueue
  <2>1. /\ cbLock' = TRUE
        /\ callbacks' = [callbacks EXCEPT ![d] = Append(@, r)]
        /\ frame' = [frame EXCEPT ![send(r)].q = queueMap[d]]
        /\ Goto(send(r), "push")
    BY <1>1, <1>5 DEF SendRequestAsync
  <2>2. /\ pc' = [u \in Threads |-> pc'[u]] /\ pc'[send(r)] = "push"
        /\ \A u \in Threads : u # send(r) => pc'[u] = pc[u]
    BY <1>1, <1>3, <2>1, GotoFacts, ThreadFacts
  <2>3. /\ frame' \in [Threads -> Frames] /\ frame'[send(r)].q = queueMap[d]
        /\ \A u \in Threads : u # send(r) => frame'[u] = frame[u]
    <3>1. frame' = [frame EXCEPT ![send(r)] = [frame[send(r)] EXCEPT !.q = queueMap[d]]]
      BY <2>1
    <3>2. frame[send(r)] \in Frames /\ queueMap[d] \in Queues \union {NoQueue}
      BY <1>1, <1>3, ThreadFacts
    <3>3. /\ [frame[send(r)] EXCEPT !.q = queueMap[d]] \in Frames
          /\ [frame[send(r)] EXCEPT !.q = queueMap[d]].q = queueMap[d]
      BY <3>2, FrameFacts
    <3> QED BY <1>1, <1>3, <3>1, <3>3, ThreadFacts
  <2>4. /\ callbacks[d] \in Seq(Requests)
        /\ callbacks'[d] = Append(callbacks[d], r)
        /\ \A c \in Clients : c # d => callbacks'[c] = callbacks[c]
    BY <1>3, <2>1
  <2>5. /\ Append(callbacks[d], r) \in Seq(Requests) /\ Len(callbacks[d]) \in Nat
        /\ Len(callbacks'[d]) = Len(callbacks[d]) + 1
        /\ \A k \in 1..Len(callbacks[d]) : callbacks'[d][k] = callbacks[d][k]
        /\ callbacks'[d][Len(callbacks[d]) + 1] = r /\ callbacks'[d] # <<>>
    BY <1>1, <2>4
  <2>6. callbacks' \in [Clients -> Seq(Requests)]
    BY <1>3, <2>1, <2>5
  <2>7. Types'
    BY <1>0, <1>2, <2>1, <2>2, <2>3, <2>6 DEF Types
  <2>8. PumpInv'
    BY <1>0, <1>1, <1>2, <2>2, <2>3, PumpFrame, ThreadFacts
  <2>9. StationInv'
    <3>1. queueMap[d] \in Queues /\ queueMap[d][1] = d
      BY <1>0, <1>3, <1>5 DEF StationInv
    <3>2. \A c \in Clients : \A i \in 1..Len(callbacks'[c]) :
            callbacks'[c][i] \in DOMAIN Target /\ Target[callbacks'[c][i]] = c
      <4>1. SUFFICES ASSUME NEW c \in Clients, NEW i \in 1..Len(callbacks'[c])
                     PROVE  callbacks'[c][i] \in DOMAIN Target /\ Target[callbacks'[c][i]] = c
        OBVIOUS
      <4>2. CASE c # d
        BY <1>0, <2>4, <4>2 DEF StationInv
      <4>3. CASE c = d /\ i = Len(callbacks[d]) + 1
        BY <1>1, <2>5, <4>3
      <4>4. CASE c = d /\ i # Len(callbacks[d]) + 1
        <5>1. i \in 1..Len(callbacks[d])
          BY <2>5, <4>4
        <5> QED BY <1>0, <2>5, <4>4, ThreadFacts DEF StationInv
      <4> QED BY <4>2, <4>3, <4>4
    <3>3. /\ \A c \in Clients : pc'[read(c)] = pc[read(c)] /\ pc'[open(c)] = pc[open(c)]
          /\ \A c \in Clients : frame'[read(c)] = frame[read(c)]
          /\ pc'[Pump] = pc[Pump]
      BY <1>1, <2>2, <2>3, ThreadFacts
    <3>4. \A t \in Threads : pc'[t] = "pop" =>
            frame'[t].q \in Queues /\ frame'[t].q[1] = frame'[t].c
      BY <1>0, <2>2, <2>3 DEF StationInv
    <3>5. \A s \in DOMAIN Target : pc'[send(s)] = "push" =>
            frame'[send(s)].q \in Queues /\ frame'[send(s)].q[1] = Target[s]
      BY <1>0, <1>1, <2>2, <2>3, <3>1, ThreadFacts DEF StationInv
    <3> QED BY <1>0, <1>2, <3>2, <3>3, <3>4, <3>5 DEF StationInv, First
  <2>10. LockInv'
    BY <1>1, <1>2, <1>4, <2>1, <2>2, ThreadFacts DEF LockInv, Holds
  <2>11. ASSUME NEW c \in Clients, First(c)
         PROVE  ClientInv(c)'
    <3>0. ClientInv(c) /\ KeepsPump(c)
      BY <1>0, <1>1, <1>2, <2>2, <2>3, <2>11, PumpKept, ThreadFacts
    <3>1. CASE c # d
      <4>1. KeepsThreads(c)
        BY <1>1, <2>2, <2>3, <3>1, ThreadsKept, ThreadFacts
      <4>2. KeepsData(c)
        BY <1>2, <2>4, <3>1 DEF KeepsData
      <4> QED BY <1>2, <3>0, <4>1, <4>2, ClientFrame
    <3>2. CASE c = d
      <4>1. /\ pc'[read(d)] = pc[read(d)] /\ pc'[open(d)] = pc[open(d)]
            /\ pc'[close(d)] = pc[close(d)] /\ frame'[read(d)] = frame[read(d)]
            /\ \A s \in DOMAIN Target : s # r =>
                 pc'[send(s)] = pc[send(s)] /\ frame'[send(s)] = frame[send(s)]
            /\ Brought(d)' = Brought(d) /\ Brought(d) \in {0, 1}
        BY <1>1, <2>2, <2>3, ThreadFacts DEF Brought
      <4>2. ControlInv(d) /\ AnswerInv(d)
        BY <3>0, <3>2 DEF ClientInv
      <4>3. ControlInv(d)'
        <5>1. frame'[send(r)].q = <<d, 1>>
          BY <1>5, <2>3, <4>2 DEF ControlInv
        <5> QED BY <1>2, <4>1, <4>2, <5>1 DEF ControlInv
      <4>4. AnswerInv(d)'
        <5>1. pc[read(d)] \in Completing \union {"answer"} =>
                callbacks'[d] # <<>> /\ callbacks'[d][1] = frame[read(d)].r
          <6>1. callbacks[d] # <<>> => 1 \in 1..Len(callbacks[d])
            OBVIOUS
          <6> QED BY <2>5, <4>2 DEF AnswerInv
        <5>2. pending[d] # NoReq /\ pending[d] \notin answered =>
                /\ Len(callbacks'[d]) >= Brought(d) + 1
                /\ callbacks'[d][Brought(d) + 1] = pending[d]
          BY <2>5, <4>1, <4>2 DEF AnswerInv
        <5> QED BY <1>2, <4>1, <4>2, <5>1, <5>2 DEF AnswerInv
      <4>5. ASSUME Served'
            PROVE  FlightInv(d)' /\ QueueInv(d)' /\ OrderInv(d)'
        <5>1. FlightInv(d) /\ QueueInv(d) /\ OrderInv(d)
          BY <3>0, <3>2, <4>5 DEF ClientInv, KeepsPump
        <5>2. FlightInv(d)'
          BY <1>2, <3>0, <3>2, <4>1, <5>1, FlightFrame
        <5>3. QueueInv(d)'
          BY <1>2, <1>4, <4>1, <5>1, QueueFrame
        <5>4. OrderInv(d)'
          <6>1. Queue(d)' = Queue(d) /\ Len(Queue(d)) \in Nat
            BY <1>2 DEF Queue
          <6>2. Len(callbacks[d]) = Brought(d) + Len(Queue(d))
            BY <1>4, <5>1 DEF OrderInv, Holds
          <6>3. \A i \in 1..Len(Queue(d)) : callbacks'[d][Brought(d) + i] = Queue(d)[i]
            <7>1. \A i \in 1..Len(Queue(d)) : Brought(d) + i \in 1..Len(callbacks[d])
              BY <4>1, <6>2
            <7> QED BY <2>5, <5>1, <7>1, ZenonT(20) DEF OrderInv
          <6>4. \A s \in DOMAIN Target : pc'[send(s)] = "push" => s = r
            BY <1>4, <4>1 DEF Holds
          <6> QED BY <1>1, <1>2, <2>2, <2>5, <4>1, <6>1, <6>2, <6>3, <6>4, ThreadFacts DEF
                     OrderInv
        <5> QED BY <5>2, <5>3, <5>4
      <4> QED BY <3>2, <4>3, <4>4, <4>5 DEF ClientInv
    <3> QED BY <3>1, <3>2
  <2> QED BY <1>2, <2>7, <2>8, <2>9, <2>10, <2>11 DEF CalmInv, First
<1>6. CASE ~(running /\ queueMap[d] # NoQueue)
  <2>1. Goto(send(r), "refused") /\ cbLock' = FALSE /\ callbacks' = callbacks /\ frame' = frame
    BY <1>1, <1>6 DEF SendRequestAsync
  <2>2. /\ pc' = [u \in Threads |-> pc'[u]] /\ pc'[send(r)] = "refused"
        /\ \A u \in Threads : u # send(r) => pc'[u] = pc[u]
    BY <1>1, <1>3, <2>1, GotoFacts, ThreadFacts
  <2>3. Types' /\ PumpInv'
    BY <1>0, <1>1, <1>2, <2>1, <2>2, PumpFrame, ThreadFacts DEF Types
  <2>4. StationInv'
    BY <1>0, <1>1, <1>2, <2>1, <2>2, StationFrame, ThreadFacts
  <2>5. LockInv'
    BY <1>1, <1>2, <1>4, <2>2, ThreadFacts DEF LockInv, Holds
  <2>6. ASSUME NEW c \in Clients, First(c)
        PROVE  ClientInv(c)'
    <3>1. KeepsPump(c)
      BY <1>1, <1>2, <2>1, <2>2, PumpKept, ThreadFacts
    <3>2. KeepsThreads(c)
      BY <1>1, <1>4, <2>1, <2>2, ThreadsKept, ThreadFacts
    <3>3. KeepsData(c)
      BY <1>2, <2>1 DEF KeepsData
    <3> QED BY <1>0, <1>2, <2>6, <3>1, <3>2, <3>3, ClientFrame
  <2> QED BY <1>2, <2>3, <2>4, <2>5, <2>6 DEF CalmInv, First
<1> QED BY <1>5, <1>6

LEMMA PushStep ==
  ASSUME Base, CalmInv, NEW r \in DOMAIN Target, Push(r)
  PROVE  CalmInv'
<1>0. /\ Types /\ PumpInv /\ StationInv /\ LockInv
      /\ \A c \in Clients : First(c) => ClientInv(c)
  BY DEF CalmInv
<1>1. PICK d \in Clients :
        d = Target[r] /\ use \in Uses /\ r \in Requests /\ DOMAIN Target \subseteq Requests
  BY TargetFacts DEF Base
<1>2. /\ pc[send(r)] = "push" /\ Goto(send(r), "notify")
      /\ heap' = [heap EXCEPT ![frame[send(r)].q] = Append(@, r)]
      /\ use' = use /\ running' = running /\ queueMap' = queueMap
      /\ pending' = pending /\ requestChannel' = requestChannel /\ timerC' = timerC
      /\ readyForDispatch' = readyForDispatch /\ ctx' = ctx /\ pump' = pump
      /\ frame' = frame /\ cbLock' = cbLock /\ callbacks' = callbacks
      /\ connected' = connected /\ connects' = connects /\ wire' = wire
      /\ answered' = answered /\ outcome' = outcome /\ Target' = Target
  BY DEF Push, channels, contexts, network, locks, Target
<1>3. /\ pc = [t \in Threads |-> pc[t]] /\ heap \in [Queues -> Seq(Requests)]
      /\ callbacks \in [Clients -> Seq(Requests)] /\ wire \in [Clients -> Seq(Requests)]
  BY <1>0 DEF Types
<1>4. /\ pc' = [u \in Threads |-> pc'[u]] /\ pc'[send(r)] = "notify"
      /\ \A u \in Threads : u # send(r) => pc'[u] = pc[u]
  BY <1>1, <1>2, <1>3, GotoFacts, ThreadFacts
<1>5. PICK q \in Queues : q = frame[send(r)].q /\ q[1] = d
  BY <1>0, <1>1, <1>2 DEF StationInv
<1>6. /\ heap[q] \in Seq(Requests) /\ heap'[q] = Append(heap[q], r)
      /\ \A p \in Queues : p # q => heap'[p] = heap[p]
  BY <1>2, <1>3, <1>5
<1>7. /\ heap'[q] \in Seq(Requests) /\ Len(heap[q]) \in Nat
      /\ Len(heap'[q]) = Len(heap[q]) + 1
      /\ \A k \in 1..Len(heap[q]) : heap'[q][k] = heap[q][k]
      /\ heap'[q][Len(heap[q]) + 1] = r /\ heap'[q] # <<>>
      /\ Range(heap'[q]) = Range(heap[q]) \union {r}
  BY <1>1, <1>6, AppendFacts
<1>8. Types'
  <2>1. heap' \in [Queues -> Seq(Requests)]
    BY <1>2, <1>3, <1>7
  <2> QED BY <1>0, <1>2, <1>4, <2>1 DEF Types
<1>9. PumpInv'
  BY <1>0, <1>1, <1>2, <1>4, PumpFrame, ThreadFacts
<1>10. StationInv'
  BY <1>0, <1>1, <1>2, <1>4, StationFrame, ThreadFacts
<1>11. LockInv'
  BY <1>0, <1>1, <1>2, <1>4, LockFrame, ThreadFacts DEF Holds
<1>12. ASSUME NEW c \in Clients, First(c)
       PROVE  ClientInv(c)'
  <2>0. ClientInv(c) /\ KeepsPump(c)
    BY <1>0, <1>1, <1>2, <1>4, <1>12, PumpKept, ThreadFacts
  <2>1. CASE c # d
    <3>1. KeepsThreads(c)
      BY <1>1, <1>2, <1>4, <2>1, ThreadsKept, ThreadFacts
    <3>2. KeepsData(c)
      BY <1>2, <1>5, <2>1 DEF KeepsData
    <3> QED BY <1>2, <2>0, <3>1, <3>2, ClientFrame
  <2>2. CASE c = d
    <3>1. /\ pc'[read(d)] = pc[read(d)] /\ pc'[open(d)] = pc[open(d)]
          /\ pc'[close(d)] = pc[close(d)] /\ pc'[Pump] = pc[Pump]
          /\ \A s \in DOMAIN Target : s # r => pc'[send(s)] = pc[send(s)]
          /\ Brought(d)' = Brought(d) /\ Brought(d) \in {0, 1}
      BY <1>1, <1>4, ThreadFacts DEF Brought
    <3>2. ControlInv(d) /\ AnswerInv(d)
      BY <2>0, <2>2 DEF ClientInv
    <3>3. q = <<d, 1>>
      BY <1>1, <1>2, <1>5, <3>2 DEF ControlInv
    <3>4. ControlInv(d)'
      BY <1>2, <3>1, <3>2 DEF ControlInv
    <3>5. AnswerInv(d)'
      BY <1>2, <3>1, <3>2, AnswerFrame
    <3>6. ASSUME Served'
          PROVE  FlightInv(d)' /\ QueueInv(d)' /\ OrderInv(d)'
      <4>1. FlightInv(d) /\ QueueInv(d) /\ OrderInv(d)
        BY <2>0, <2>2, <3>6 DEF ClientInv, KeepsPump
      <4>2. Queue(d) = heap[q] /\ Queue(d)' = heap'[q]
        BY <3>3 DEF Queue
      <4>3. r \notin Range(Queue(d)) \union Range(wire[d])
        BY <1>1, <1>2, <4>1 DEF QueueInv
      <4>4. Queue(d) # <<>> => Queue(d)'[1] = Queue(d)[1]
        BY <1>7, <4>2
      <4>5. FlightInv(d)'
        <5>1. pc[read(d)] = "delete" => pending[d] # r
          <6>1. SUFFICES ASSUME pc[read(d)] = "delete", pending[d] = r
                         PROVE  FALSE
            OBVIOUS
          <6>2. pending[d] # NoReq
            BY <1>1, <6>1, OcppjServerAssumption
          <6>3. ~Writing(d)
            BY <4>1, <6>1 DEF FlightInv, Completing
          <6> QED BY <4>1, <4>3, <6>1, <6>2, <6>3 DEF FlightInv
        <5>2. pc[read(d)] = "delete" => pending[d] \notin Range(heap'[q])
          BY <1>7, <4>1, <4>2, <5>1 DEF FlightInv
        <5>3. /\ Checking(d)' <=> Checking(d)
              /\ Adding(d)' <=> Adding(d)
              /\ Writing(d)' <=> Writing(d)
          BY <1>2, <3>1 DEF Checking, Adding, Writing
        <5> QED BY <1>2, <1>7, <3>1, <4>1, <4>2, <4>4, <5>2, <5>3, ZenonT(20), ThreadFacts DEF
                   FlightInv
      <4>6. QueueInv(d)'
        <5>1. \A i \in 1..Len(heap[q]) : heap[q][i] \in Range(heap[q])
          BY <1>6, RangeFacts
        <5>2. ASSUME NEW i \in 1..Len(heap'[q])
              PROVE  i \in 1..Len(heap[q]) \/ (i = Len(heap[q]) + 1 /\ heap'[q][i] = r)
          BY <1>7
        <5>3. \A i, j \in 1..Len(heap'[q]) : heap'[q][i] = heap'[q][j] => i = j
          <6>1. \A i, j \in 1..Len(heap[q]) : heap[q][i] = heap[q][j] => i = j
            BY <4>1, <4>2 DEF QueueInv
          <6>2. \A i \in 1..Len(heap[q]) : heap[q][i] # r /\ heap'[q][i] = heap[q][i]
            BY <1>7, <4>2, <4>3, <5>1, <5>2, ThreadFacts
          <6> QED BY <1>7, <5>2, <6>1, <6>2
        <5>4. \A i \in 1..Len(heap'[q]) :
                heap'[q][i] \in Range(wire[d]) => i = 1 /\ heap'[q][i] = pending[d]
          <6>1. \A i \in 1..Len(heap[q]) :
                  heap[q][i] \in Range(wire[d]) => i = 1 /\ heap[q][i] = pending[d]
            BY <4>1, <4>2 DEF QueueInv
          <6>2. \A i \in 1..Len(heap[q]) : heap'[q][i] = heap[q][i]
            BY <1>7
          <6> QED BY <1>7, <4>3, <6>1, <6>2
        <5>5. \A s \in DOMAIN Target : Target[s] = d /\ pc'[send(s)] \in {"idle", "try", "push"} =>
                s \notin Range(heap'[q]) \union Range(wire[d])
          BY <1>4, <1>7, <3>1, <4>1, <4>2 DEF QueueInv
        <5>6. \A i \in 1..Len(wire[d]) : wire[d][i] \in answered \/ wire[d][i] = pending[d]
          BY <4>1 DEF QueueInv
        <5> QED BY <1>2, <4>2, <5>3, <5>4, <5>5, <5>6 DEF QueueInv
      <4>7. OrderInv(d)'
        <5>1. /\ Len(callbacks[d]) = Brought(d) + Len(heap[q]) + 1
              /\ callbacks[d][Brought(d) + Len(heap[q]) + 1] = r
          BY <1>1, <1>2, <4>1, <4>2 DEF OrderInv
        <5>2. \A s \in DOMAIN Target : pc'[send(s)] # "push"
          BY <1>0, <1>2, <1>4, <3>1 DEF LockInv, Holds
        <5>3. Len(callbacks[d]) = Brought(d) + Len(heap'[q])
          BY <1>7, <3>1, <5>1
        <5>4. ASSUME NEW i \in 1..Len(heap'[q])
              PROVE  callbacks[d][Brought(d) + i] = heap'[q][i]
          <6>1. CASE i \in 1..Len(heap[q])
            BY <1>7, <4>1, <4>2, <6>1 DEF OrderInv
          <6>2. CASE i = Len(heap[q]) + 1
            <7>1. Brought(d) + i = Brought(d) + Len(heap[q]) + 1
              BY <3>1, <6>2
            <7> QED BY <1>7, <5>1, <6>2, <7>1
          <6> QED BY <1>7, <6>1, <6>2
        <5> QED BY <1>2, <3>1, <4>2, <5>2, <5>3, <5>4 DEF OrderInv
      <4> QED BY <4>5, <4>6, <4>7
    <3> QED BY <2>2, <3>4, <3>5, <3>6 DEF ClientInv
  <2> QED BY <2>1, <2>2
<1> QED BY <1>2, <1>8, <1>9, <1>10, <1>11, <1>12 DEF CalmInv, First

LEMMA BlockStep ==
  ASSUME Base, CalmInv, NEW t \in Threads, BlockOnRequestChannel(t),
         t \in {send(r) : r \in DOMAIN Target} \union {close(c) : c \in Clients}
  PROVE  CalmInv'
<1>0. /\ Types /\ PumpInv /\ StationInv /\ LockInv
      /\ \A c \in Clients : First(c) => ClientInv(c)
  BY DEF CalmInv
<1>1. use \in Uses /\ DOMAIN Target \subseteq Requests
  BY TargetFacts DEF Base
<1>2. /\ pc[t] = "notify" /\ Goto(t, "blocked")
      /\ use' = use /\ running' = running /\ queueMap' = queueMap /\ heap' = heap
      /\ pending' = pending /\ requestChannel' = requestChannel /\ timerC' = timerC
      /\ readyForDispatch' = readyForDispatch /\ ctx' = ctx /\ pump' = pump
      /\ frame' = frame /\ cbLock' = cbLock /\ callbacks' = callbacks
      /\ connected' = connected /\ connects' = connects /\ wire' = wire
      /\ answered' = answered /\ outcome' = outcome /\ Target' = Target
  BY DEF BlockOnRequestChannel, channels, contexts, network, Target
<1>3. /\ pc' = [u \in Threads |-> pc'[u]] /\ pc'[t] = "blocked"
      /\ \A u \in Threads : u # t => pc'[u] = pc[u]
  BY <1>0, <1>2, GotoFacts DEF Types
<1>4. t # Pump /\ \A c \in Clients : t # read(c) /\ t # open(c)
  BY <1>1, ThreadFacts
<1>5. Types' /\ PumpInv'
  BY <1>0, <1>2, <1>3, <1>4, PumpFrame, ThreadFacts DEF Types
<1>6. StationInv'
  BY <1>0, <1>1, <1>2, <1>3, <1>4, StationFrame
<1>7. LockInv'
  BY <1>0, <1>1, <1>2, <1>3, LockFrame, ThreadFacts DEF Holds
<1>8. ASSUME NEW c \in Clients, First(c)
      PROVE  ClientInv(c)'
  <2>1. ClientInv(c) /\ KeepsPump(c)
    BY <1>0, <1>2, <1>3, <1>4, <1>8, PumpKept, ThreadFacts
  <2>2. t # close(c)
    BY <1>2, <2>1 DEF ClientInv, ControlInv
  <2>3. KeepsThreads(c)
    BY <1>1, <1>2, <1>3, <1>4, <2>2, ThreadsKept
  <2>4. KeepsData(c)
    BY <1>2 DEF KeepsData
  <2> QED BY <1>2, <2>1, <2>3, <2>4, ClientFrame
<1> QED BY <1>2, <1>5, <1>6, <1>7, <1>8 DEF CalmInv, First

LEMMA NotifyStep ==
  ASSUME Base, CalmInv, NEW r \in DOMAIN Target, Notify(r)
  PROVE  CalmInv'
<1>0. /\ Types /\ PumpInv /\ StationInv /\ LockInv
      /\ \A c \in Clients : First(c) => ClientInv(c)
  BY DEF CalmInv
<1>1. use \in Uses /\ DOMAIN Target \subseteq Requests /\ r \in Requests /\ Target[r] \in Clients
  BY TargetFacts DEF Base
<1>2. /\ pc[send(r)] \in {"notify", "blocked"}
      /\ Goto(send(r), "done") /\ Return(send(r)) /\ cbLock' = FALSE
      /\ requestChannel' = Append(requestChannel, Target[r])
      /\ use' = use /\ running' = running /\ queueMap' = queueMap /\ heap' = heap
      /\ pending' = pending /\ timerC' = timerC
      /\ readyForDispatch' = readyForDispatch /\ ctx' = ctx /\ pump' = pump
      /\ callbacks' = callbacks
      /\ connected' = connected /\ connects' = connects /\ wire' = wire
      /\ answered' = answered /\ outcome' = outcome /\ Target' = Target
  BY DEF Notify, ToRequestChannel, contexts, network, Target
<1>3. pc = [t \in Threads |-> pc[t]] /\ frame \in [Threads -> Frames]
  BY <1>0 DEF Types
<1>4. /\ pc' = [u \in Threads |-> pc'[u]] /\ pc'[send(r)] = "done"
      /\ \A u \in Threads : u # send(r) => pc'[u] = pc[u]
  BY <1>1, <1>2, <1>3, GotoFacts, ThreadFacts
<1>5. /\ frame' \in [Threads -> Frames]
      /\ \A u \in Threads : u # send(r) => frame'[u] = frame[u]
  BY <1>1, <1>2, <1>3, ReturnFacts, ThreadFacts
<1>6. Types'
  <2>1. requestChannel' \in Seq(Clients)
    BY <1>0, <1>1, <1>2 DEF Types
  <2> QED BY <1>0, <1>2, <1>4, <1>5, <2>1, ZenonT(20) DEF Types
<1>7. PumpInv'
  BY <1>0, <1>1, <1>2, <1>4, <1>5, PumpFrame, ThreadFacts
<1>8. StationInv'
  BY <1>0, <1>1, <1>2, <1>4, <1>5, StationFrame, ThreadFacts
<1>9. LockInv'
  <2>1. \A s \in DOMAIN Target : Holds(s) => s = r
    BY <1>0, <1>2 DEF LockInv, Holds
  <2>2. \A s \in DOMAIN Target : ~Holds(s)'
    BY <1>1, <1>4, <2>1, ThreadFacts DEF Holds
  <2> QED BY <1>2, <2>2 DEF LockInv
<1>10. ASSUME NEW c \in Clients, First(c)
       PROVE  ClientInv(c)'
  <2>1. ClientInv(c) /\ KeepsPump(c)
    BY <1>0, <1>1, <1>2, <1>4, <1>5, <1>10, PumpKept, ThreadFacts
  <2>2. KeepsThreads(c)
    BY <1>1, <1>2, <1>4, <1>5, ThreadsKept, ThreadFacts
  <2>3. KeepsData(c)
    BY <1>2 DEF KeepsData
  <2> QED BY <1>2, <2>1, <2>2, <2>3, ClientFrame
<1> QED BY <1>2, <1>6, <1>7, <1>8, <1>9, <1>10 DEF CalmInv, First

-----------------------------------------------------------------------------
(* The end of a connection: the station has left its first connection.     *)

\* The goroutine that closes the connection of d leaves the other stations alone.
LEMMA ClosingStep ==
  ASSUME Base, CalmInv, Types', NEW d \in Clients,
         pc[close(d)] # "idle", pc'[close(d)] # "pop",
         \A u \in Threads : u # close(d) => pc'[u] = pc[u],
         use' = use, running' = running, timerC' = timerC, ctx' = ctx, pump' = pump,
         readyForDispatch' = readyForDispatch, frame' = frame, cbLock' = cbLock,
         connected' = connected, connects' = connects,
         queueMap'[d] \in {queueMap[d], NoQueue},
         callbacks' = callbacks \/ \A c \in Clients : CallbacksOf(callbacks'[c], c),
         \A c \in Clients : c # d => KeepsData(c)
  PROVE  CalmInv'
<1>0. /\ Types /\ PumpInv /\ StationInv /\ LockInv
      /\ \A c \in Clients : First(c) => ClientInv(c)
  BY DEF CalmInv
<1>1. use \in Uses /\ DOMAIN Target \subseteq Requests
  BY TargetFacts DEF Base
<1>2. /\ close(d) \in Threads /\ close(d) # Pump
      /\ \A c \in Clients : close(d) # read(c) /\ close(d) # open(c)
      /\ \A c \in Clients : c # d => close(d) # close(c)
      /\ \A r \in DOMAIN Target : send(r) \in Threads /\ close(d) # send(r)
  BY <1>1, ThreadFacts
<1>3. PumpInv' /\ LockInv'
  BY <1>0, <1>2, PumpFrame, LockFrame, ThreadFacts DEF Holds
<1>4. StationInv'
  <2>1. \A c \in Clients : queueMap'[c] \in {queueMap[c], NoQueue}
    BY ZenonT(20) DEF KeepsData
  <2>2. \A c \in Clients : queueMap'[c] # NoQueue => queueMap'[c][1] = c
    BY <1>0, <2>1 DEF StationInv
  <2> QED BY <1>0, <1>1, <1>2, <2>2, StationFrame
<1>5. ASSUME NEW c \in Clients, First(c)
      PROVE  ClientInv(c)'
  <2>1. ClientInv(c) /\ KeepsPump(c)
    BY <1>0, <1>5, PumpKept, ThreadFacts
  <2>2. c # d
    BY <2>1 DEF ClientInv, ControlInv
  <2>3. KeepsThreads(c)
    BY <1>1, <1>2, <2>2, ThreadsKept
  <2> QED BY <2>1, <2>2, <2>3, ClientFrame
<1> QED BY <1>3, <1>4, <1>5 DEF CalmInv, First

LEMMA DeleteClientStep ==
  ASSUME Base, CalmInv, NEW d \in Clients, DeleteClient(d)
  PROVE  CalmInv'
<1>1. Types /\ StationInv /\ use \in Uses /\ close(d) \in Threads
  BY ThreadFacts DEF CalmInv, Base
<1>2. /\ pc[close(d)] = "remove" /\ Goto(close(d), "notify")
      /\ queueMap' = [queueMap EXCEPT ![d] = NoQueue]
      /\ use' = use /\ running' = running /\ heap' = heap
      /\ pending' = pending /\ requestChannel' = requestChannel /\ timerC' = timerC
      /\ readyForDispatch' = readyForDispatch /\ ctx' = ctx /\ pump' = pump
      /\ frame' = frame /\ cbLock' = cbLock /\ callbacks' = callbacks
      /\ connected' = connected /\ connects' = connects /\ wire' = wire
      /\ answered' = answered /\ outcome' = outcome /\ Target' = Target
  BY DEF DeleteClient, channels, contexts, network, locks, Target
<1>3. /\ pc' = [u \in Threads |-> pc'[u]] /\ pc'[close(d)] = "notify"
      /\ \A u \in Threads : u # close(d) => pc'[u] = pc[u]
  BY <1>1, <1>2, GotoFacts DEF Types
<1>4. /\ queueMap' \in [Clients -> Queues \union {NoQueue}] /\ queueMap'[d] = NoQueue
      /\ \A c \in Clients : c # d => queueMap'[c] = queueMap[c]
  BY <1>1, <1>2 DEF Types
<1>5. Types'
  BY <1>1, <1>2, <1>3, <1>4 DEF Types
<1>6. \A c \in Clients : c # d => KeepsData(c)
  <2>1. /\ heap' = heap /\ pending' = pending /\ wire' = wire /\ callbacks' = callbacks
        /\ connected' = connected /\ answered' = answered /\ outcome' = outcome
    BY <1>2
  <2> QED BY <1>4, <2>1 DEF KeepsData
<1> QED BY <1>2, <1>3, <1>5, <1>6, ClosingStep

LEMMA NotifyDeletedStep ==
  ASSUME Base, CalmInv, NEW d \in Clients, NotifyDeleted(d)
  PROVE  CalmInv'
<1>1. Types /\ StationInv /\ use \in Uses /\ close(d) \in Threads
  BY ThreadFacts DEF CalmInv, Base
<1>2. /\ pc[close(d)] \in {"notify", "blocked"} /\ Goto(close(d), "clear")
      /\ requestChannel' = requestChannel \/ requestChannel' = Append(requestChannel, d)
      /\ use' = use /\ running' = running /\ queueMap' = queueMap /\ heap' = heap
      /\ pending' = pending /\ timerC' = timerC
      /\ readyForDispatch' = readyForDispatch /\ ctx' = ctx /\ pump' = pump
      /\ frame' = frame /\ cbLock' = cbLock /\ callbacks' = callbacks
      /\ connected' = connected /\ connects' = connects /\ wire' = wire
      /\ answered' = answered /\ outcome' = outcome /\ Target' = Target
  BY DEF NotifyDeleted, ToRequestChannel, contexts, network, Target
<1>3. /\ pc' = [u \in Threads |-> pc'[u]] /\ pc'[close(d)] = "clear"
      /\ \A u \in Threads : u # close(d) => pc'[u] = pc[u]
  BY <1>1, <1>2, GotoFacts DEF Types
<1>4. requestChannel' \in Seq(Clients)
  <2>1. requestChannel \in Seq(Clients)
    BY <1>1 DEF Types
  <2>2. Append(requestChannel, d) \in Seq(Clients)
    BY <2>1
  <2> QED BY <1>2, <2>1, <2>2
<1>5. Types'
  <2>1. /\ running' = running /\ cbLock' = cbLock /\ queueMap' = queueMap /\ heap' = heap
        /\ pending' = pending /\ readyForDispatch' = readyForDispatch /\ ctx' = ctx
        /\ pump' = pump /\ frame' = frame /\ callbacks' = callbacks /\ connected' = connected
        /\ connects' = connects /\ wire' = wire /\ answered' = answered /\ outcome' = outcome
    BY <1>2
  <2> QED BY <1>1, <1>3, <1>4, <2>1 DEF Types
<1>6. \A c \in Clients : c # d => KeepsData(c)
  <2>1. /\ heap' = heap /\ pending' = pending /\ wire' = wire /\ callbacks' = callbacks
        /\ connected' = connected /\ answered' = answered /\ outcome' = outcome
        /\ queueMap' = queueMap
    BY <1>2
  <2> QED BY <2>1 DEF KeepsData
<1> QED BY <1>2, <1>3, <1>5, <1>6, ClosingStep

LEMMA ClearStep ==
  ASSUME Base, CalmInv, NEW d \in Clients, ClearClientPendingRequest(d)
  PROVE  CalmInv'
<1>1. Types /\ StationInv /\ use \in Uses /\ close(d) \in Threads
  BY ThreadFacts DEF CalmInv, Base
<1>2. /\ pc[close(d)] = "clear" /\ Goto(close(d), "drain")
      /\ pending' = [pending EXCEPT ![d] = NoReq]
      /\ use' = use /\ running' = running /\ queueMap' = queueMap /\ heap' = heap
      /\ requestChannel' = requestChannel /\ timerC' = timerC
      /\ readyForDispatch' = readyForDispatch /\ ctx' = ctx /\ pump' = pump
      /\ frame' = frame /\ cbLock' = cbLock /\ callbacks' = callbacks
      /\ connected' = connected /\ connects' = connects /\ wire' = wire
      /\ answered' = answered /\ outcome' = outcome /\ Target' = Target
  BY DEF ClearClientPendingRequest, channels, contexts, network, locks, Target
<1>3. /\ pc' = [u \in Threads |-> pc'[u]] /\ pc'[close(d)] = "drain"
      /\ \A u \in Threads : u # close(d) => pc'[u] = pc[u]
  BY <1>1, <1>2, GotoFacts DEF Types
<1>4. /\ pending' \in [Clients -> Requests \union {NoReq}]
      /\ \A c \in Clients : c # d => pending'[c] = pending[c]
  BY <1>1, <1>2 DEF Types
<1>5. Types'
  BY <1>1, <1>2, <1>3 DEF Types
<1>6. \A c \in Clients : c # d => KeepsData(c)
  BY <1>2 DEF KeepsData
<1> QED BY <1>2, <1>3, <1>5, <1>6, ClosingStep

LEMMA DequeueFacts ==
  ASSUME use \in Uses, StationInv, callbacks \in [Clients -> Seq(Requests)],
         outcome = [r \in Requests |-> outcome[r]],
         NEW d \in Clients, NEW what, Dequeue(d, what)
  PROVE  /\ callbacks' \in [Clients -> Seq(Requests)]
         /\ outcome' = [r \in Requests |-> outcome'[r]]
         /\ \A c \in Clients : CallbacksOf(callbacks'[c], c)
         /\ \A c \in Clients : c # d => callbacks'[c] = callbacks[c]
         /\ \A r \in DOMAIN Target : Target[r] # d => outcome'[r] = outcome[r]
         /\ callbacks[d] # <<>> => /\ callbacks'[d] = Tail(callbacks[d])
                                   /\ outcome'[callbacks[d][1]] = what
                                   /\ \A r \in Requests : r # callbacks[d][1] =>
                                        outcome'[r] = outcome[r]
<1>1. /\ DOMAIN Target \subseteq Requests /\ callbacks[d] \in Seq(Requests)
      /\ \A c \in Clients : CallbacksOf(callbacks[c], c)
  BY TargetFacts DEF StationInv, CallbacksOf
<1>2. CASE callbacks[d] = <<>>
  <2>1. callbacks' = callbacks /\ outcome' = outcome
    BY <1>2 DEF Dequeue
  <2> QED BY <1>1, <1>2, <2>1
<1>3. CASE callbacks[d] # <<>>
  <2>1. /\ Head(callbacks[d]) = callbacks[d][1] /\ callbacks[d][1] \in Requests
        /\ Tail(callbacks[d]) \in Seq(Requests)
        /\ Len(callbacks[d]) \in Nat /\ Len(callbacks[d]) > 0
        /\ \A k \in 1..Len(Tail(callbacks[d])) : /\ k + 1 \in 1..Len(callbacks[d])
                                                 /\ Tail(callbacks[d])[k] = callbacks[d][k + 1]
    BY <1>3
  <2>2. /\ outcome' = [outcome EXCEPT ![callbacks[d][1]] = what]
        /\ callbacks' = [callbacks EXCEPT ![d] = Tail(callbacks[d])]
    BY <2>1 DEF Dequeue
  <2>3. /\ callbacks' \in [Clients -> Seq(Requests)] /\ callbacks'[d] = Tail(callbacks[d])
        /\ \A c \in Clients : c # d => callbacks'[c] = callbacks[c]
    BY <2>1, <2>2
  <2>4. /\ outcome' = [r \in Requests |-> outcome'[r]]
        /\ outcome'[callbacks[d][1]] = what
        /\ \A r \in Requests : r # callbacks[d][1] => outcome'[r] = outcome[r]
    BY <2>1, <2>2
  <2>5. Target[callbacks[d][1]] = d
    BY <1>1, <2>1 DEF CallbacksOf
  <2>6. CallbacksOf(Tail(callbacks[d]), d)
    BY <1>1, <2>1 DEF CallbacksOf
  <2>7. \A c \in Clients : CallbacksOf(callbacks'[c], c)
    BY <1>1, <2>3, <2>6, ZenonT(20)
  <2>8. \A r \in DOMAIN Target : Target[r] # d => outcome'[r] = outcome[r]
    BY <1>1, <2>4, <2>5
  <2> QED BY <2>3, <2>4, <2>7, <2>8
<1> QED BY <1>2, <1>3, ZenonT(20)

LEMMA DrainStep ==
  ASSUME Base, CalmInv, NEW d \in Clients, DrainCallbacks(d)
  PROVE  CalmInv'
<1>1. Types /\ StationInv /\ use \in Uses /\ close(d) \in Threads
  BY ThreadFacts DEF CalmInv, Base
<1>2. /\ pc[close(d)] = "drain" /\ Dequeue(d, "disconnected")
      /\ Goto(close(d), IF callbacks[d] = <<>> THEN "idle" ELSE "drain")
      /\ use' = use /\ running' = running /\ queueMap' = queueMap /\ heap' = heap
      /\ pending' = pending /\ requestChannel' = requestChannel /\ timerC' = timerC
      /\ readyForDispatch' = readyForDispatch /\ ctx' = ctx /\ pump' = pump
      /\ frame' = frame /\ cbLock' = cbLock
      /\ connected' = connected /\ connects' = connects /\ wire' = wire
      /\ answered' = answered /\ Target' = Target
  BY DEF DrainCallbacks, channels, contexts, network, locks, Target
<1>3. /\ pc' = [u \in Threads |-> pc'[u]] /\ pc'[close(d)] \in {"idle", "drain"}
      /\ \A u \in Threads : u # close(d) => pc'[u] = pc[u]
  BY <1>1, <1>2, GotoFacts DEF Types
<1>4. /\ callbacks' \in [Clients -> Seq(Requests)]
      /\ outcome' = [r \in Requests |-> outcome'[r]]
      /\ \A c \in Clients : CallbacksOf(callbacks'[c], c)
      /\ \A c \in Clients : c # d => callbacks'[c] = callbacks[c]
      /\ \A r \in DOMAIN Target : Target[r] # d => outcome'[r] = outcome[r]
  <2>1. /\ callbacks \in [Clients -> Seq(Requests)]
        /\ outcome = [r \in Requests |-> outcome[r]]
    BY <1>1 DEF Types
  <2> QED BY <1>1, <1>2, <2>1, DequeueFacts, ZenonT(20)
<1>5. Types'
  BY <1>1, <1>2, <1>3, <1>4 DEF Types
<1>6. \A c \in Clients : c # d => KeepsData(c)
  BY <1>2, <1>4 DEF KeepsData
<1> QED BY <1>2, <1>3, <1>4, <1>5, <1>6, ClosingStep

-----------------------------------------------------------------------------
(* Connections, and Stop.                                                  *)

\* What opening or closing a connection has to see to.
LEMMA ConnectionFrame ==
  ASSUME StationInv, PumpInv, use \in Uses, use' = use, pump' = pump,
         callbacks' = callbacks, queueMap' = queueMap, pc'[Pump] = pc[Pump],
         \A r \in DOMAIN Target :
           pc'[send(r)] = pc[send(r)] /\ frame'[send(r)] = frame[send(r)],
         \A t \in Threads : pc'[t] = "pop" =>
           \E u \in Threads : pc[u] = "pop" /\ frame'[t] = frame[u],
         \A c \in Clients :
           \/ pc'[read(c)] \in {"idle", "reading"}
           \/ pc'[read(c)] = pc[read(c)] /\ frame'[read(c)] = frame[read(c)],
         \A c \in Clients : pc'[open(c)] = "create" => connects'[c] >= 1,
         \A c \in connected' : connects'[c] >= 1,
         \A c \in Clients : First(c)' => First(c)
  PROVE  StationInv'
<1>1. Target' = Target /\ Completing' = Completing
  BY DEF Target
<1>2. \A c \in Clients : pc'[read(c)] \in Completing \union {"answer"} => frame'[read(c)].c = c
  BY DEF StationInv, Completing
<1>3. pc'[Pump] \in Completing \union {"writeCancel"} => ~First(pump.c)'
  <2>1. SUFFICES ASSUME pc[Pump] \in Completing \union {"writeCancel"}
                 PROVE  ~First(pump.c)'
    OBVIOUS
  <2>2. PICK p \in Clients : p = pump.c /\ pump'.c = p
    BY <2>1 DEF PumpInv
  <2>3. ~First(p)'
    BY <2>1, <2>2 DEF StationInv
  <2> QED BY <2>2, <2>3
<1>4. \A t \in Threads : pc'[t] = "pop" =>
        frame'[t].q \in Queues /\ frame'[t].q[1] = frame'[t].c
  BY DEF StationInv
<1>5. \A r \in DOMAIN Target : pc'[send(r)] = "push" =>
        frame'[send(r)].q \in Queues /\ frame'[send(r)].q[1] = Target[r]
  BY DEF StationInv
<1>6. \A c \in Clients : \A i \in 1..Len(callbacks'[c]) :
        callbacks'[c][i] \in DOMAIN Target /\ Target[callbacks'[c][i]] = c
  BY DEF StationInv
<1> QED BY <1>1, <1>2, <1>3, <1>4, <1>5, <1>6 DEF StationInv

LEMMA ConnectStep ==
  ASSUME Base, CalmInv, OldInv, NEW d \in Clients, Connect(d)
  PROVE  CalmInv'
<1>0. /\ Types /\ PumpInv /\ StationInv /\ LockInv
      /\ \A c \in Clients : First(c) => ClientInv(c)
  BY DEF CalmInv
<1>1. use \in Uses /\ DOMAIN Target \subseteq Requests
  BY TargetFacts DEF Base
<1>2. /\ d \notin connected /\ connects[d] < use.connects
      /\ connected' = connected \union {d}
      /\ connects' = [connects EXCEPT ![d] = @ + 1]
      /\ use' = use /\ running' = running /\ queueMap' = queueMap /\ heap' = heap
      /\ pending' = pending /\ requestChannel' = requestChannel /\ timerC' = timerC
      /\ readyForDispatch' = readyForDispatch /\ ctx' = ctx /\ pump' = pump
      /\ cbLock' = cbLock /\ callbacks' = callbacks
      /\ wire' = wire /\ answered' = answered /\ outcome' = outcome /\ Target' = Target
  BY DEF Connect, channels, contexts, locks, Target
<1>pc. /\ pc' = [pc EXCEPT ![open(d)] = "create", ![read(d)] = "reading",
                          ![oldOpen(d)] = pc[open(d)], ![oldRead(d)] = pc[read(d)]]
       /\ frame' = [frame EXCEPT ![read(d)] = NoFrame, ![oldRead(d)] = frame[read(d)]]
  BY DEF Connect
<1>th. /\ {open(d), read(d), oldOpen(d), oldRead(d)} \subseteq Threads
       /\ open(d) # read(d) /\ oldOpen(d) \notin {open(d), read(d)}
       /\ oldRead(d) \notin {open(d), read(d), oldOpen(d)}
  BY ThreadFacts, OldFacts
<1>3. /\ pc' = [u \in Threads |-> pc'[u]]
      /\ pc'[open(d)] = "create" /\ pc'[read(d)] = "reading"
      /\ pc'[oldOpen(d)] = pc[open(d)] /\ pc'[oldRead(d)] = pc[read(d)]
      /\ \A u \in Threads \ {open(d), read(d), oldOpen(d), oldRead(d)} : pc'[u] = pc[u]
  <2>1. pc = [u \in Threads |-> pc[u]]
    BY <1>0 DEF Types
  <2> DEFINE a == open(d)
             b == read(d)
             o == oldOpen(d)
             e == oldRead(d)
  <2>2. /\ {a, b, o, e} \subseteq Threads /\ a # b /\ o # a /\ o # b /\ e # a /\ e # b /\ e # o
    BY <1>th
  <2>3. pc' = [pc EXCEPT ![a] = "create", ![b] = "reading", ![o] = pc[a], ![e] = pc[b]]
    BY <1>pc
  <2> HIDE DEF a, b, o, e
  <2>4. /\ pc' = [u \in Threads |-> pc'[u]]
        /\ pc'[a] = "create" /\ pc'[b] = "reading" /\ pc'[o] = pc[a] /\ pc'[e] = pc[b]
        /\ \A u \in Threads \ {a, b, o, e} : pc'[u] = pc[u]
    BY <2>1, <2>2, <2>3, ZenonT(20)
  <2> QED BY <2>4 DEF a, b, o, e
<1>fr. /\ frame' \in [Threads -> Frames]
       /\ frame'[oldRead(d)] = frame[read(d)]
       /\ \A u \in Threads \ {read(d), oldRead(d)} : frame'[u] = frame[u]
  <2>1. frame \in [Threads -> Frames] /\ NoFrame \in Frames
    BY <1>0 DEF Types, NoFrame, Frames
  <2> DEFINE b == read(d)
             e == oldRead(d)
  <2>2. b \in Threads /\ e \in Threads /\ e # b
    BY <1>th
  <2>3. frame' = [frame EXCEPT ![b] = NoFrame, ![e] = frame[b]]
    BY <1>pc
  <2> HIDE DEF b, e
  <2>4. /\ frame' \in [Threads -> Frames] /\ frame'[e] = frame[b]
        /\ \A u \in Threads \ {b, e} : frame'[u] = frame[u]
    BY <2>1, <2>2, <2>3
  <2> QED BY <2>4 DEF b, e
<1>un. /\ pc'[Pump] = pc[Pump] /\ frame'[Pump] = frame[Pump]
       /\ \A r \in DOMAIN Target :
            pc'[send(r)] = pc[send(r)] /\ frame'[send(r)] = frame[send(r)]
       /\ pc'[close(d)] = pc[close(d)]
       /\ \A c \in Clients : c # d =>
            /\ pc'[read(c)] = pc[read(c)] /\ frame'[read(c)] = frame[read(c)]
            /\ pc'[open(c)] = pc[open(c)] /\ pc'[close(c)] = pc[close(c)]
  <2> DEFINE moved == {open(d), read(d), oldOpen(d), oldRead(d)}
  <2>1. {Pump, close(d)} \subseteq Threads \ moved
    BY ThreadFacts, OldFacts
  <2>2. \A r \in DOMAIN Target : send(r) \in Threads \ moved
    BY <1>1, ThreadFacts, OldFacts
  <2>3. \A c \in Clients : c # d => {read(c), open(c), close(c)} \subseteq Threads \ moved
    BY ThreadFacts, OldFacts
  <2>4. \A u \in Threads \ moved : pc'[u] = pc[u] /\ frame'[u] = frame[u]
    BY <1>3, <1>fr
  <2> HIDE DEF moved
  <2> QED BY <2>1, <2>2, <2>3, <2>4
<1>id. First(d) => pc[read(d)] = "idle" /\ pc[open(d)] = "idle"
  BY <1>0, <1>2 DEF ClientInv, ControlInv
<1>4. /\ connects[d] \in Nat /\ connects'[d] = connects[d] + 1
      /\ connects' \in [Clients -> 0..MaxConnects]
      /\ \A c \in Clients : c # d => connects'[c] = connects[c]
  <2>1. use.connects \in 1..MaxConnects /\ MaxConnects \in Nat
    BY <1>1, OcppjServerAssumption
  <2>2. connects \in [Clients -> 0..MaxConnects]
    BY <1>0 DEF Types
  <2> QED BY <1>2, <2>1, <2>2
<1>5. Types' /\ PumpInv'
  <2>1. Types'
    BY <1>0, <1>2, <1>3, <1>4, <1>fr DEF Types
  <2>2. PumpInv'
    BY <1>0, <1>2, <1>un, PumpFrame
  <2> QED BY <2>1, <2>2
<1>6. /\ \A c \in Clients : c # d => (First(c)' <=> First(c))
      /\ First(d)' => First(d)
  BY <1>2, <1>4 DEF First
<1>7. StationInv'
  <2>1. \A c \in connected' : connects'[c] >= 1
    BY <1>0, <1>2 DEF StationInv, Types
  <2>2. \A c \in Clients : pc'[open(c)] = "create" => connects'[c] >= 1
    BY <1>0, <1>3, <1>4, <1>un DEF StationInv
  <2>3. \A c \in Clients :
          \/ pc'[read(c)] \in {"idle", "reading"}
          \/ pc'[read(c)] = pc[read(c)] /\ frame'[read(c)] = frame[read(c)]
    BY <1>3, <1>un
  <2>4. \A t \in Threads : pc'[t] = "pop" =>
          \E u \in Threads : pc[u] = "pop" /\ frame'[t] = frame[u]
    <3> SUFFICES ASSUME NEW t \in Threads, pc'[t] = "pop"
                 PROVE  \E u \in Threads : pc[u] = "pop" /\ frame'[t] = frame[u]
      OBVIOUS
    <3>1. CASE t = oldRead(d)
      BY <1>3, <1>fr, <1>th, <3>1
    <3>2. CASE t = oldOpen(d)
      BY <1>3, <3>2 DEF OldInv
    <3>3. CASE t \notin {oldRead(d), oldOpen(d)}
      BY <1>3, <1>fr, <1>th, <3>3
    <3> QED BY <3>1, <3>2, <3>3
  <2> QED BY <1>0, <1>1, <1>2, <1>6, <1>un, <2>1, <2>2, <2>3, <2>4, ConnectionFrame
<1>8. LockInv'
  BY <1>0, <1>2, <1>un, LockFrame DEF Holds
<1>9. ASSUME NEW c \in Clients, First(c)'
      PROVE  ClientInv(c)'
  <2>1. First(c) /\ ClientInv(c) /\ KeepsPump(c)
    BY <1>0, <1>2, <1>6, <1>9, <1>un, PumpKept
  <2>2. CASE c # d
    <3>1. KeepsThreads(c)
      BY <1>un, <2>2 DEF KeepsThreads
    <3>2. KeepsData(c)
      BY <1>2, <2>2 DEF KeepsData
    <3> QED BY <1>2, <2>1, <3>1, <3>2, ClientFrame
  <2>3. CASE c = d
    <3>1. /\ pc'[close(d)] = pc[close(d)] /\ Brought(d)' = Brought(d)
          /\ pc[read(d)] = "idle"
          /\ \A r \in DOMAIN Target : pc'[send(r)] = pc[send(r)]
      BY <1>3, <1>id, <1>un, <2>1, <2>3 DEF Brought
    <3>2. ControlInv(d)'
      <4>1. ControlInv(d)
        BY <2>1, <2>3 DEF ClientInv
      <4>2. queueMap'[d] = NoQueue
        BY <1>2, <4>1 DEF ControlInv
      <4>3. d \in connected' /\ pc'[close(d)] = "idle" /\ pc'[read(d)] \notin Completing
        BY <1>2, <1>3, <3>1, <4>1 DEF ControlInv, Completing
      <4>4. \A r \in DOMAIN Target : Target[r] = d /\ pc'[send(r)] = "push" =>
              frame'[send(r)].q = <<d, 1>>
        BY <1>2, <1>un, <4>1 DEF ControlInv
      <4> QED BY <1>2, <1>3, <4>2, <4>3, <4>4 DEF ControlInv
    <3>3. AnswerInv(d)'
      BY <1>2, <1>3, <2>1, <2>3, <3>1 DEF ClientInv, AnswerInv, Completing
    <3>4. ASSUME Served'
          PROVE  FlightInv(d)' /\ QueueInv(d)' /\ OrderInv(d)'
      <4>1. FlightInv(d) /\ QueueInv(d) /\ OrderInv(d)
        BY <2>1, <2>3, <3>4 DEF ClientInv, KeepsPump
      <4>2. QueueInv(d)' /\ OrderInv(d)'
        BY <1>2, <3>1, <4>1, QueueFrame, OrderFrame
      <4>3. FlightInv(d)'
        <5>1. Queue(d)' = Queue(d)
          BY <1>2 DEF Queue
        <5>2. KeepsPump(d)
          BY <2>1, <2>3
        <5>3. frame'[Pump] = frame[Pump] /\ pc[read(d)] = "idle" /\ pc'[read(d)] = "reading"
          BY <1>3, <1>un, <3>1
        <5> QED BY <1>2, <4>1, <5>1, <5>2, <5>3 DEF FlightInv, KeepsPump, Completing
      <4> QED BY <4>2, <4>3
    <3> QED BY <2>3, <3>2, <3>3, <3>4 DEF ClientInv
  <2> QED BY <2>2, <2>3
<1> QED BY <1>5, <1>7, <1>8, <1>9 DEF CalmInv

LEMMA CreateClientStep ==
  ASSUME Base, CalmInv, NEW d \in Clients, CreateClient(open(d), d, connects[d])
  PROVE  CalmInv'
<1>0. /\ Types /\ PumpInv /\ StationInv /\ LockInv
      /\ \A c \in Clients : First(c) => ClientInv(c)
  BY DEF CalmInv
<1>1. use \in Uses /\ DOMAIN Target \subseteq Requests
  BY TargetFacts DEF Base
<1>2. /\ pc[open(d)] = "create" /\ Goto(open(d), "idle")
      /\ queueMap' = [queueMap EXCEPT ![d] =
                        IF running /\ @ = NoQueue THEN <<d, connects[d]>> ELSE @]
      /\ use' = use /\ running' = running /\ heap' = heap
      /\ pending' = pending /\ requestChannel' = requestChannel /\ timerC' = timerC
      /\ readyForDispatch' = readyForDispatch /\ ctx' = ctx /\ pump' = pump
      /\ frame' = frame /\ cbLock' = cbLock /\ callbacks' = callbacks
      /\ connected' = connected /\ connects' = connects /\ wire' = wire
      /\ answered' = answered /\ outcome' = outcome /\ Target' = Target
  BY DEF CreateClient, channels, contexts, network, locks, Target
<1>3. /\ pc' = [u \in Threads |-> pc'[u]] /\ pc'[open(d)] = "idle"
      /\ \A u \in Threads : u # open(d) => pc'[u] = pc[u]
  BY <1>0, <1>2, GotoFacts, ThreadFacts DEF Types
<1>4. /\ queueMap' \in [Clients -> Queues \union {NoQueue}]
      /\ queueMap[d] # NoQueue => queueMap'[d] = queueMap[d]
      /\ queueMap'[d] \in {queueMap[d], <<d, connects[d]>>}
      /\ \A c \in Clients : c # d => queueMap'[c] = queueMap[c]
  <2>1. connects[d] \in 1..MaxConnects
    <3>1. connects[d] \in 0..MaxConnects
      BY <1>0 DEF Types
    <3>2. StationInv /\ pc[open(d)] = "create"
      BY <1>0, <1>2
    <3>3. connects[d] >= 1
      BY <3>2 DEF StationInv
    <3> QED BY <3>1, <3>3
  <2>2. <<d, connects[d]>> \in Queues
    BY <2>1 DEF Queues
  <2>3. queueMap \in [Clients -> Queues \union {NoQueue}]
    BY <1>0 DEF Types
  <2> QED BY <1>2, <2>2, <2>3
<1>5. Types' /\ PumpInv'
  <2>1. Types'
    BY <1>0, <1>2, <1>3, <1>4 DEF Types
  <2>2. PumpInv'
    BY <1>0, <1>2, <1>3, PumpFrame, ThreadFacts
  <2> QED BY <2>1, <2>2
<1>6. StationInv'
  <2>1. \A c \in Clients : queueMap'[c] # NoQueue => queueMap'[c][1] = c
    <3>1. \A c \in Clients : queueMap[c] # NoQueue => queueMap[c][1] = c
      BY <1>0 DEF StationInv
    <3> QED BY <1>4, <3>1
  <2> QED BY <1>0, <1>1, <1>2, <1>3, <2>1, StationFrame, ThreadFacts
<1>7. LockInv'
  BY <1>0, <1>1, <1>2, <1>3, LockFrame, ThreadFacts DEF Holds
<1>8. ASSUME NEW c \in Clients, First(c)
      PROVE  ClientInv(c)'
  <2>1. ClientInv(c) /\ KeepsPump(c)
    BY <1>0, <1>2, <1>3, <1>8, PumpKept, ThreadFacts
  <2>2. CASE c # d
    <3>1. KeepsThreads(c)
      BY <1>1, <1>2, <1>3, <2>2, ThreadsKept, ThreadFacts
    <3>2. KeepsData(c)
      BY <1>2, <2>2 DEF KeepsData
    <3> QED BY <1>2, <2>1, <3>1, <3>2, ClientFrame
  <2>3. CASE c = d
    <3>1. /\ pc'[close(d)] = pc[close(d)] /\ pc'[read(d)] = pc[read(d)]
          /\ Brought(d)' = Brought(d)
          /\ \A r \in DOMAIN Target : pc'[send(r)] = pc[send(r)]
      BY <1>1, <1>3, ThreadFacts DEF Brought
    <3>2. ControlInv(d)'
      <4>1. d \in connected /\ connects[d] = 1
        BY <1>2, <1>8, <2>1, <2>3 DEF ClientInv, ControlInv, First
      <4>2. ControlInv(d)
        BY <2>1, <2>3 DEF ClientInv
      <4>3. queueMap'[d] # NoQueue => queueMap'[d] = <<d, 1>>
        BY <1>4, <4>1, <4>2 DEF ControlInv
      <4> QED BY <1>2, <3>1, <4>2, <4>3 DEF ControlInv
    <3>3. AnswerInv(d)'
      BY <1>2, <2>1, <2>3, <3>1, AnswerFrame DEF ClientInv
    <3>4. ASSUME Served'
          PROVE  FlightInv(d)' /\ QueueInv(d)' /\ OrderInv(d)'
      <4>1. FlightInv(d) /\ QueueInv(d) /\ OrderInv(d) /\ KeepsPump(d)
        BY <2>1, <2>3, <3>4 DEF ClientInv, KeepsPump
      <4>2. QueueInv(d)' /\ OrderInv(d)'
        BY <1>2, <3>1, <4>1, QueueFrame, OrderFrame
      <4>3. FlightInv(d)'
        <5>1. Queue(d)' = Queue(d)
          BY <1>2 DEF Queue
        <5>2. Checking(d) => pump.q = queueMap'[d]
          BY <1>4, <4>1 DEF FlightInv, Checking
        <5>3. /\ ctx' = ctx /\ pending' = pending /\ frame' = frame /\ wire' = wire
              /\ readyForDispatch' = readyForDispatch /\ answered' = answered
              /\ pc'[read(d)] = pc[read(d)] /\ pump' = pump
          BY <1>2, <3>1
        <5>4. queueMap[d] # NoQueue => queueMap'[d] = queueMap[d]
          BY <1>4
        <5>5. FlightInv(d) /\ KeepsPump(d)
          BY <4>1
        <5> QED BY <5>1, <5>2, <5>3, <5>4, <5>5 DEF FlightInv, KeepsPump
      <4> QED BY <4>2, <4>3
    <3> QED BY <2>3, <3>2, <3>3, <3>4 DEF ClientInv
  <2> QED BY <2>2, <2>3
<1> QED BY <1>2, <1>5, <1>6, <1>7, <1>8 DEF CalmInv, First

\* The same by a goroutine of the connection before: the station is not on its first.
LEMMA OldCreateStep ==
  ASSUME Base, CalmInv, OldInv, NEW d \in Clients,
         CreateClient(oldOpen(d), d, connects[d] - 1)
  PROVE  CalmInv'
<1>0. /\ Types /\ PumpInv /\ StationInv /\ LockInv
      /\ \A c \in Clients : First(c) => ClientInv(c)
  BY DEF CalmInv
<1>1. use \in Uses /\ DOMAIN Target \subseteq Requests
  BY TargetFacts DEF Base
<1>2. /\ pc[oldOpen(d)] = "create" /\ Goto(oldOpen(d), "idle")
      /\ queueMap' = [queueMap EXCEPT ![d] =
                        IF running /\ @ = NoQueue THEN <<d, connects[d] - 1>> ELSE @]
      /\ use' = use /\ running' = running /\ heap' = heap
      /\ pending' = pending /\ requestChannel' = requestChannel /\ timerC' = timerC
      /\ readyForDispatch' = readyForDispatch /\ ctx' = ctx /\ pump' = pump
      /\ frame' = frame /\ cbLock' = cbLock /\ callbacks' = callbacks
      /\ connected' = connected /\ connects' = connects /\ wire' = wire
      /\ answered' = answered /\ outcome' = outcome /\ Target' = Target
  BY DEF CreateClient, channels, contexts, network, locks, Target
<1>3. /\ pc' = [u \in Threads |-> pc'[u]] /\ pc'[oldOpen(d)] = "idle"
      /\ \A u \in Threads : u # oldOpen(d) => pc'[u] = pc[u]
  <2>1. oldOpen(d) \in Threads /\ pc = [u \in Threads |-> pc[u]]
    BY <1>0, OldFacts DEF Types
  <2> QED BY <1>2, <2>1, GotoFacts
<1>4. /\ pc'[Pump] = pc[Pump] /\ \A r \in DOMAIN Target : pc'[send(r)] = pc[send(r)]
      /\ \A c \in Clients : /\ pc'[read(c)] = pc[read(c)] /\ pc'[open(c)] = pc[open(c)]
                            /\ pc'[close(c)] = pc[close(c)]
  BY <1>1, <1>3, ThreadFacts, OldFacts
<1>5. connects[d] \in 2..MaxConnects /\ ~First(d)
  <2>1. connects[d] \in 0..MaxConnects
    BY <1>0 DEF Types
  <2>2. connects[d] >= 2
    BY <1>2 DEF OldInv
  <2> QED BY <2>1, <2>2 DEF First
<1>6. /\ queueMap' \in [Clients -> Queues \union {NoQueue}]
      /\ queueMap'[d] \in {queueMap[d], <<d, connects[d] - 1>>}
      /\ \A c \in Clients : c # d => queueMap'[c] = queueMap[c]
  <2>1. <<d, connects[d] - 1>> \in Queues
    BY <1>5, OcppjServerAssumption DEF Queues
  <2>2. queueMap \in [Clients -> Queues \union {NoQueue}]
    BY <1>0 DEF Types
  <2> QED BY <1>2, <2>1, <2>2
<1>7. Types' /\ PumpInv'
  <2>1. Types'
    BY <1>0, <1>2, <1>3, <1>6 DEF Types
  <2>2. PumpInv'
    BY <1>0, <1>2, <1>4, PumpFrame
  <2> QED BY <2>1, <2>2
<1>8. StationInv'
  <2>1. \A c \in Clients : queueMap'[c] # NoQueue => queueMap'[c][1] = c
    <3>1. \A c \in Clients : queueMap[c] # NoQueue => queueMap[c][1] = c
      BY <1>0 DEF StationInv
    <3> QED BY <1>6, <3>1
  <2> DEFINE t == oldOpen(d)
  <2>2. /\ t \in Threads /\ t # Pump
        /\ \A c \in Clients : t # read(c) /\ t # open(c)
    BY OldFacts
  <2>3. \A r \in DOMAIN Target : t # send(r)
    BY <1>1, OldFacts
  <2>4. /\ pc'[t] = "idle" /\ frame' = frame
        /\ \A u \in Threads : u # t => pc'[u] = pc[u] /\ frame'[u] = frame[u]
    BY <1>2, <1>3
  <2>5. /\ use' = use /\ connects' = connects /\ connected' = connected
        /\ callbacks' = callbacks /\ pump' = pump
    BY <1>2
  <2> HIDE DEF t
  <2> QED BY <1>0, <1>1, <2>1, <2>2, <2>3, <2>4, <2>5, StationFrame
<1>9. LockInv'
  BY <1>0, <1>2, <1>4, LockFrame DEF Holds
<1>10. ASSUME NEW c \in Clients, First(c)
       PROVE  ClientInv(c)'
  <2>1. c # d /\ ClientInv(c) /\ KeepsPump(c)
    BY <1>0, <1>2, <1>4, <1>5, <1>10, PumpKept
  <2>2. KeepsThreads(c)
    BY <1>2, <1>4, <2>1 DEF KeepsThreads
  <2>3. KeepsData(c)
    BY <1>2, <1>6, <2>1 DEF KeepsData
  <2> QED BY <1>2, <2>1, <2>2, <2>3, ClientFrame
<1> QED BY <1>2, <1>7, <1>8, <1>9, <1>10 DEF CalmInv, First

LEMMA DisconnectStep ==
  ASSUME Base, CalmInv, NEW d \in Clients, Disconnect(d)
  PROVE  CalmInv'
<1>0. /\ Types /\ PumpInv /\ StationInv /\ LockInv
      /\ \A c \in Clients : First(c) => ClientInv(c)
  BY DEF CalmInv
<1>1. use \in Uses /\ DOMAIN Target \subseteq Requests
  BY TargetFacts DEF Base
<1>2. /\ d \in connected /\ connected' = connected \ {d}
      /\ wire' = [wire EXCEPT ![d] = <<>>]
      /\ use' = use /\ running' = running /\ queueMap' = queueMap /\ heap' = heap
      /\ pending' = pending /\ requestChannel' = requestChannel /\ timerC' = timerC
      /\ readyForDispatch' = readyForDispatch /\ ctx' = ctx /\ pump' = pump
      /\ frame' = frame /\ cbLock' = cbLock /\ callbacks' = callbacks
      /\ connects' = connects /\ answered' = answered /\ outcome' = outcome
      /\ Target' = Target
  BY DEF Disconnect, channels, contexts, locks, Target
<1>pc. pc' = [pc EXCEPT ![close(d)] = "remove",
                        ![read(d)] = IF @ = "reading" THEN "idle" ELSE @]
  BY DEF Disconnect
<1>3. /\ pc' = [u \in Threads |-> pc'[u]]
      /\ pc'[close(d)] = "remove" /\ pc'[read(d)] \in {"idle", pc[read(d)]}
      /\ \A u \in Threads : u # close(d) /\ u # read(d) => pc'[u] = pc[u]
  BY <1>0, <1>pc, ZenonT(20), ThreadFacts DEF Types
<1>4. /\ wire' \in [Clients -> Seq(Requests)]
      /\ \A c \in Clients : c # d => wire'[c] = wire[c]
  BY <1>0, <1>2 DEF Types
<1>5. Types' /\ PumpInv'
  BY <1>0, <1>2, <1>3, PumpFrame, ThreadFacts DEF Types
<1>6. /\ \A c \in Clients : c # d => (First(c)' <=> First(c))
      /\ ~First(d)'
  <2>1. connects[d] >= 1 /\ connects[d] \in Nat
    BY <1>0, <1>2 DEF StationInv, Types
  <2> QED BY <1>2, <2>1 DEF First
<1>7. StationInv'
  <2>1. /\ pc'[Pump] = pc[Pump]
        /\ \A r \in DOMAIN Target : pc'[send(r)] = pc[send(r)]
        /\ \A c \in Clients : pc'[open(c)] = pc[open(c)]
        /\ \A c \in Clients : pc'[read(c)] \in {"idle", pc[read(c)]}
        /\ \A t \in Threads : pc'[t] = "pop" => pc[t] = "pop"
    BY <1>1, <1>3, ThreadFacts
  <2>2. /\ \A c \in connected' : connects'[c] >= 1
        /\ \A c \in Clients : pc'[open(c)] = "create" => connects'[c] >= 1
    BY <1>0, <1>2, <2>1 DEF StationInv
  <2> QED BY <1>0, <1>1, <1>2, <1>6, <2>1, <2>2, ConnectionFrame
<1>8. LockInv'
  BY <1>0, <1>1, <1>2, <1>3, LockFrame, ThreadFacts DEF Holds
<1>9. ASSUME NEW c \in Clients, First(c)'
      PROVE  ClientInv(c)'
  <2>1. c # d /\ ClientInv(c) /\ KeepsPump(c)
    BY <1>0, <1>2, <1>3, <1>6, <1>9, PumpKept, ThreadFacts
  <2>2. KeepsThreads(c)
    <3>1. /\ pc'[read(c)] = pc[read(c)] /\ pc'[open(c)] = pc[open(c)]
          /\ pc'[close(c)] = pc[close(c)]
      BY <1>3, <2>1, ThreadFacts
    <3>2. \A r \in DOMAIN Target : pc'[send(r)] = pc[send(r)]
      BY <1>1, <1>3, ThreadFacts
    <3> QED BY <1>2, <3>1, <3>2 DEF KeepsThreads
  <2>3. KeepsData(c)
    BY <1>2, <2>1 DEF KeepsData
  <2> QED BY <1>2, <2>1, <2>2, <2>3, ClientFrame
<1> QED BY <1>5, <1>7, <1>8, <1>9 DEF CalmInv

\* A step that does not touch what CalmInv is about: a goroutine comes to wait for
\* the readers of the mutex, or nothing happens.
LEMMA QuietStep ==
  ASSUME Base, CalmInv, use' = use, running' = running, queueMap' = queueMap, heap' = heap,
         pending' = pending, requestChannel' = requestChannel, timerC' = timerC,
         readyForDispatch' = readyForDispatch, ctx' = ctx, pump' = pump, pc' = pc,
         frame' = frame, cbLock' = cbLock, callbacks' = callbacks, connected' = connected,
         connects' = connects, wire' = wire, answered' = answered, outcome' = outcome
  PROVE  CalmInv'
<1>0. /\ Types /\ PumpInv /\ StationInv /\ LockInv
      /\ \A c \in Clients : First(c) => ClientInv(c)
  BY DEF CalmInv
<1>1. use \in Uses /\ Target' = Target
  BY DEF Base, Target
<1>2. Types' /\ PumpInv' /\ StationInv' /\ LockInv'
  <2>1. Types'
    BY <1>0, ZenonT(20) DEF Types
  <2>2. PumpInv' /\ LockInv'
    BY <1>0, <1>1, PumpFrame, LockFrame DEF Holds
  <2>3. StationInv'
    BY <1>0, <1>1 DEF StationInv, First
  <2> QED BY <2>1, <2>2, <2>3
<1>3. ASSUME NEW c \in Clients, First(c)
      PROVE  ClientInv(c)'
  <2>1. KeepsPump(c) /\ KeepsThreads(c) /\ KeepsData(c)
    BY PumpKept DEF KeepsThreads, KeepsData
  <2> QED BY <1>0, <1>1, <1>3, <2>1, ClientFrame
<1> QED BY <1>2, <1>3 DEF CalmInv, First

LEMMA StopStep ==
  ASSUME Base, CalmInv, Stop
  PROVE  CalmInv'
<1>0. /\ Types /\ PumpInv /\ StationInv /\ LockInv
      /\ \A c \in Clients : First(c) => ClientInv(c)
  BY DEF CalmInv
<1>1. use \in Uses /\ DOMAIN Target \subseteq Requests
  BY TargetFacts DEF Base
<1>2. /\ running' = FALSE
      /\ use' = use /\ queueMap' = queueMap /\ heap' = heap
      /\ pending' = pending /\ requestChannel' = requestChannel /\ timerC' = timerC
      /\ readyForDispatch' = readyForDispatch /\ ctx' = ctx /\ pump' = pump
      /\ pc' = pc /\ frame' = frame /\ cbLock' = cbLock /\ callbacks' = callbacks
      /\ connected' = connected /\ connects' = connects /\ wire' = wire
      /\ answered' = answered /\ outcome' = outcome /\ Target' = Target
  BY DEF Stop, channels, contexts, network, locks, Target
<1>3. Types' /\ PumpInv' /\ StationInv' /\ LockInv'
  <2>1. Types'
    BY <1>0, <1>2, ZenonT(20) DEF Types
  <2>2. PumpInv' /\ LockInv'
    BY <1>0, <1>2, PumpFrame, LockFrame DEF Holds
  <2>3. StationInv'
    BY <1>0, <1>2 DEF StationInv, First
  <2> QED BY <2>1, <2>2, <2>3
<1>4. ASSUME NEW c \in Clients, First(c)
      PROVE  ClientInv(c)'
  <2>1. KeepsPump(c) /\ KeepsThreads(c) /\ KeepsData(c)
    BY <1>2, PumpKept DEF KeepsThreads, KeepsData
  <2> QED BY <1>0, <1>2, <1>4, <2>1, ClientFrame
<1> QED BY <1>2, <1>3, <1>4 DEF CalmInv, First

=============================================================================
