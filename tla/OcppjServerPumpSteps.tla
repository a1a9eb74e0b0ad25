------------------------ MODULE OcppjServerPumpSteps ------------------------
(***************************************************************************)
(* Proofs about OcppjServer, second part: the message pump keeps the       *)
(* invariant of OcppjServerSteps.                                          *)
(***************************************************************************)
EXTENDS OcppjServerSteps

(* The provers have more than their default time for the leaves below.     *)
USE SMTT(20), ZenonT(20)

(* The message pump.                                                       *)

LEMMA PumpKeepsThreads ==
  ASSUME use \in Uses, NEW c \in Clients,
         \A u \in Threads : u # Pump => pc'[u] = pc[u] /\ frame'[u] = frame[u]
  PROVE  KeepsThreads(c)
BY TargetFacts, ThreadFacts, ThreadsKept

LEMMA PumpKeepsLock ==
  ASSUME use \in Uses, use' = use, cbLock' = cbLock, LockInv,
         \A u \in Threads : u # Pump => pc'[u] = pc[u]
  PROVE  LockInv'
BY TargetFacts, ThreadFacts, LockFrame DEF Holds

LEMMA ReqChanStep ==
  ASSUME Base, CalmInv, ReqChan
  PROVE  CalmInv'
<1>0. /\ Types /\ PumpInv /\ StationInv /\ LockInv
      /\ \A c \in Clients : First(c) => ClientInv(c)
  BY DEF CalmInv
<1>1. /\ pc[Pump] = "loop" /\ Goto(Pump, "select")
      /\ use' = use /\ running' = running /\ queueMap' = queueMap /\ heap' = heap
      /\ pending' = pending /\ requestChannel' = requestChannel /\ timerC' = timerC
      /\ readyForDispatch' = readyForDispatch /\ ctx' = ctx /\ pump' = pump
      /\ frame' = frame /\ cbLock' = cbLock /\ callbacks' = callbacks
      /\ connected' = connected /\ connects' = connects /\ wire' = wire
      /\ answered' = answered /\ outcome' = outcome /\ Target' = Target
  BY DEF ReqChan, channels, contexts, network, locks, Target
<1>2. use \in Uses
  BY DEF Base
<1>3. /\ pc' = [u \in Threads |-> pc'[u]] /\ pc'[Pump] = "select"
      /\ \A u \in Threads : u # Pump => pc'[u] = pc[u]
  BY <1>0, <1>1, GotoFacts, ThreadFacts DEF Types
<1>4. Types' /\ PumpInv'
  <2>1. Types'
    BY <1>0, <1>1, <1>3 DEF Types
  <2>2. PumpInv'
    BY <1>0, <1>1, <1>3 DEF PumpInv, Completing
  <2> QED BY <2>1, <2>2
<1>5. StationInv' /\ LockInv'
  BY <1>0, <1>1, <1>2, <1>3, StationFrame, PumpKeepsLock, ThreadFacts DEF Completing
<1>6. ASSUME NEW c \in Clients, First(c)
      PROVE  ClientInv(c)'
  <2>1. ClientInv(c) /\ KeepsThreads(c) /\ KeepsData(c)
    BY <1>0, <1>1, <1>2, <1>3, <1>6, PumpKeepsThreads DEF KeepsData
  <2>2. KeepsPump(c)
    BY <1>1, <1>3 DEF KeepsPump, Checking, Adding, Writing, Served
  <2> QED BY <1>1, <2>1, <2>2, ClientFrame
<1> QED BY <1>1, <1>4, <1>5, <1>6 DEF CalmInv, First

LEMMA PumpRequestStep ==
  ASSUME Base, CalmInv, PumpRequest
  PROVE  CalmInv'
<1>0. /\ Types /\ PumpInv /\ StationInv /\ LockInv
      /\ \A c \in Clients : First(c) => ClientInv(c)
  BY DEF CalmInv
<1>1. PICK d : d = Head(requestChannel)
  OBVIOUS
<1>2. /\ pc[Pump] = "select" /\ requestChannel # <<>>
      /\ requestChannel' = Tail(requestChannel)
      /\ use' = use /\ running' = running /\ queueMap' = queueMap /\ heap' = heap
      /\ pending' = pending /\ timerC' = timerC
      /\ readyForDispatch' = readyForDispatch
      /\ frame' = frame /\ cbLock' = cbLock /\ callbacks' = callbacks
      /\ connected' = connected /\ connects' = connects /\ wire' = wire
      /\ answered' = answered /\ outcome' = outcome /\ Target' = Target
  BY DEF PumpRequest, network, locks, Target
<1>3. use \in Uses /\ d \in Clients /\ requestChannel' \in Seq(Clients)
  BY <1>0, <1>1, <1>2 DEF Base, Types
<1>4. /\ queueMap[d] = NoQueue =>
           /\ ctx' = [ctx EXCEPT ![d] = "none"]
           /\ pump' = [pump EXCEPT !.c = d, !.q = NoQueue] /\ Goto(Pump, "loop")
      /\ queueMap[d] # NoQueue =>
           /\ pump' = [c |-> d, q |-> queueMap[d], rdy |-> ctx[d] \in {"none", "idle"}]
           /\ Goto(Pump, "check") /\ ctx' = ctx
  BY <1>1 DEF PumpRequest
<1>5. /\ pc' = [u \in Threads |-> pc'[u]]
      /\ pc'[Pump] = IF queueMap[d] = NoQueue THEN "loop" ELSE "check"
      /\ \A u \in Threads : u # Pump => pc'[u] = pc[u]
  BY <1>0, <1>2, <1>4, GotoFacts, ThreadFacts DEF Types
<1>6. /\ DOMAIN pump' = {"c", "rdy", "q"} /\ pump'.c = d /\ pump'.q = queueMap[d]
      /\ queueMap[d] # NoQueue => (pump'.rdy <=> ctx[d] \in {"none", "idle"})
  <2>1. DOMAIN pump = {"c", "rdy", "q"}
    BY <1>0 DEF Types
  <2>2. CASE queueMap[d] = NoQueue
    <3>1. pump' = [pump EXCEPT !.c = d, !.q = NoQueue]
      BY <1>4, <2>2
    <3> QED BY <2>1, <2>2, <3>1
  <2>3. CASE queueMap[d] # NoQueue
    <3>1. pump' = [c |-> d, q |-> queueMap[d], rdy |-> ctx[d] \in {"none", "idle"}]
      BY <1>4, <2>3
    <3> HIDE ThreadFacts
    <3> QED BY <3>1, ZenonT(20)
  <2> QED BY <2>2, <2>3
<1>7. /\ ctx' \in [Clients -> {"none", "idle", "armed"}]
      /\ ctx'[d] = IF queueMap[d] = NoQueue THEN "none" ELSE ctx[d]
      /\ \A c \in Clients : c # d => ctx'[c] = ctx[c]
  BY <1>0, <1>3, <1>4, ZenonT(20) DEF Types
<1>8. Types'
  BY <1>0, <1>2, <1>3, <1>5, <1>6, <1>7 DEF Types
<1>9. PumpInv'
  BY <1>0, <1>2, <1>3, <1>5, <1>6 DEF PumpInv, Completing
<1>10. StationInv' /\ LockInv'
  BY <1>0, <1>2, <1>3, <1>5, StationFrame, PumpKeepsLock, ThreadFacts DEF Completing
<1>11. ASSUME NEW c \in Clients, First(c)
       PROVE  ClientInv(c)'
  <2>1. ClientInv(c) /\ KeepsThreads(c) /\ KeepsData(c)
    BY <1>0, <1>2, <1>3, <1>5, <1>11, PumpKeepsThreads DEF KeepsData
  <2>2. CASE c # d
    <3>1. KeepsPump(c)
      BY <1>2, <1>6, <1>7, <2>2 DEF KeepsPump, Checking, Adding, Writing, Served
    <3> QED BY <1>2, <2>1, <3>1, ClientFrame
  <2>3. CASE c = d
    <3>1. /\ ControlInv(d)' /\ AnswerInv(d)'
          /\ FlightInv(d) /\ QueueInv(d) /\ OrderInv(d)
      BY <1>2, <2>1, <2>3, ControlFrame, AnswerFrame DEF ClientInv, KeepsThreads, Served
    <3>2. Brought(d)' = Brought(d)
      BY <2>1, <2>3 DEF Brought, KeepsThreads
    <3>3. QueueInv(d)' /\ OrderInv(d)'
      BY <1>2, <2>1, <2>3, <3>1, <3>2, QueueFrame, OrderFrame DEF KeepsThreads
    <3>4. FlightInv(d)'
      <4>1. /\ Queue(d)' = Queue(d) /\ pc'[read(d)] = pc[read(d)]
            /\ ~Adding(d)' /\ ~Writing(d)' /\ ~Writing(d)
            /\ Checking(d)' => ctx'[d] # "armed" /\ pump'.q = queueMap'[d]
            /\ ctx[d] = "armed" => ctx'[d] = "armed" /\ queueMap[d] # NoQueue
            /\ ctx'[d] = "armed" => ctx[d] = "armed"
        BY <1>2, <1>3, <1>5, <1>6, <1>7, <3>1, ThreadFacts DEF Queue, Adding, Writing,
           Checking, FlightInv
      <4> QED BY <1>2, <3>1, <4>1 DEF FlightInv
    <3> QED BY <2>3, <3>1, <3>3, <3>4 DEF ClientInv
  <2> QED BY <2>2, <2>3
<1> QED BY <1>2, <1>8, <1>9, <1>10, <1>11 DEF CalmInv, First

LEMMA PumpReadyStep ==
  ASSUME Base, CalmInv, PumpReady
  PROVE  CalmInv'
<1>0. /\ Types /\ PumpInv /\ StationInv /\ LockInv
      /\ \A c \in Clients : First(c) => ClientInv(c)
  BY DEF CalmInv
<1>1. PICK d \in Clients : readyForDispatch = <<d>>
  BY <1>0 DEF PumpReady, Types, Slot
<1>2. /\ pc[Pump] = "select" /\ Goto(Pump, "check") /\ readyForDispatch' = <<>>
      /\ ctx' = [ctx EXCEPT ![d] = IF @ = "none" THEN "none" ELSE "idle"]
      /\ pump' = [c |-> d, q |-> queueMap[d], rdy |-> pump.rdy \/ queueMap[d] # NoQueue]
      /\ use' = use /\ running' = running /\ queueMap' = queueMap /\ heap' = heap
      /\ pending' = pending /\ requestChannel' = requestChannel /\ timerC' = timerC
      /\ frame' = frame /\ cbLock' = cbLock /\ callbacks' = callbacks
      /\ connected' = connected /\ connects' = connects /\ wire' = wire
      /\ answered' = answered /\ outcome' = outcome /\ Target' = Target
  <2>1. Head(readyForDispatch) = d
    BY <1>1
  <2> QED BY <2>1, ZenonT(20) DEF PumpReady, CancelContext, network, locks, Target
<1>3. use \in Uses
  BY DEF Base
<1>4. /\ pc' = [u \in Threads |-> pc'[u]] /\ pc'[Pump] = "check"
      /\ \A u \in Threads : u # Pump => pc'[u] = pc[u]
  BY <1>0, <1>2, GotoFacts, ThreadFacts DEF Types
<1>5. DOMAIN pump' = {"c", "rdy", "q"} /\ pump'.c = d /\ pump'.q = queueMap[d]
  BY <1>2
<1>6. /\ ctx' \in [Clients -> {"none", "idle", "armed"}] /\ ctx'[d] # "armed"
      /\ \A c \in Clients : c # d => ctx'[c] = ctx[c]
  BY <1>0, <1>2 DEF Types
<1>7. Types'
  BY <1>0, <1>2, <1>4 DEF Types, Slot
<1>8. PumpInv'
  BY <1>0, <1>2, <1>4 DEF PumpInv, Completing
<1>9. StationInv' /\ LockInv'
  BY <1>0, <1>2, <1>3, <1>4, StationFrame, PumpKeepsLock, ThreadFacts DEF Completing
<1>10. \A c : readyForDispatch' # <<c>>
  BY <1>2
<1>11. ASSUME NEW c \in Clients, First(c)
       PROVE  ClientInv(c)'
  <2>1. ClientInv(c) /\ KeepsThreads(c) /\ KeepsData(c)
    BY <1>0, <1>2, <1>3, <1>4, <1>11, PumpKeepsThreads DEF KeepsData
  <2>2. CASE c # d
    <3>1. KeepsPump(c)
      BY <1>2, <2>2 DEF KeepsPump, Checking, Adding, Writing, Served
    <3> QED BY <1>2, <2>1, <3>1, ClientFrame
  <2>3. CASE c = d
    <3>1. /\ ControlInv(d)' /\ AnswerInv(d)'
          /\ FlightInv(d) /\ QueueInv(d) /\ OrderInv(d)
      BY <1>2, <2>1, <2>3, ControlFrame, AnswerFrame DEF ClientInv, KeepsThreads, Served
    <3>2. Brought(d)' = Brought(d)
      BY <2>1, <2>3 DEF Brought, KeepsThreads
    <3>3. QueueInv(d)' /\ OrderInv(d)'
      BY <1>2, <2>1, <2>3, <3>1, <3>2, QueueFrame, OrderFrame DEF KeepsThreads
    <3>4. FlightInv(d)'
      <4>1. pending[d] = NoReq /\ pc[read(d)] \notin Completing /\ pc'[read(d)] = pc[read(d)]
        BY <1>1, <1>4, <3>1, ThreadFacts DEF FlightInv
      <4>2. /\ ~Adding(d)' /\ ~Writing(d)' /\ pump'.q = queueMap'[d]
        BY <1>2, <1>4 DEF Adding, Writing
      <4> QED BY <1>2, <1>6, <4>1, <4>2 DEF FlightInv, Completing
    <3> QED BY <2>3, <3>1, <3>3, <3>4 DEF ClientInv
  <2> QED BY <2>2, <2>3
<1> QED BY <1>2, <1>7, <1>8, <1>9, <1>11 DEF CalmInv, First

LEMMA PumpStoppedStep ==
  ASSUME Base, CalmInv, PumpStopped
  PROVE  CalmInv'
<1>0. /\ Types /\ PumpInv /\ StationInv /\ LockInv
      /\ \A c \in Clients : First(c) => ClientInv(c)
  BY DEF CalmInv
<1>1. /\ pc[Pump] = "select" /\ ~running /\ Goto(Pump, "stopped")
      /\ queueMap' = [c \in Clients |-> NoQueue]
      /\ use' = use /\ running' = running /\ heap' = heap
      /\ pending' = pending /\ requestChannel' = requestChannel /\ timerC' = timerC
      /\ readyForDispatch' = readyForDispatch /\ ctx' = ctx /\ pump' = pump
      /\ frame' = frame /\ cbLock' = cbLock /\ callbacks' = callbacks
      /\ connected' = connected /\ connects' = connects /\ wire' = wire
      /\ answered' = answered /\ outcome' = outcome /\ Target' = Target
  BY DEF PumpStopped, channels, contexts, network, locks, Target
<1>2. use \in Uses /\ DOMAIN Target \subseteq Requests
  BY TargetFacts DEF Base
<1>3. /\ pc' = [u \in Threads |-> pc'[u]] /\ pc'[Pump] = "stopped"
      /\ \A u \in Threads : u # Pump => pc'[u] = pc[u]
  BY <1>0, <1>1, GotoFacts, ThreadFacts DEF Types
<1>4. /\ queueMap' \in [Clients -> Queues \union {NoQueue}]
      /\ \A c \in Clients : queueMap'[c] = NoQueue
  BY <1>1
<1>5. Types'
  BY <1>0, <1>1, <1>3 DEF Types
<1>6. PumpInv' /\ LockInv'
  BY <1>0, <1>1, <1>2, <1>3, PumpKeepsLock DEF PumpInv, Completing
<1>7. StationInv'
  <2>1. /\ \A c \in Clients : pc'[read(c)] = pc[read(c)] /\ pc'[open(c)] = pc[open(c)]
        /\ \A r \in DOMAIN Target : pc'[send(r)] = pc[send(r)]
        /\ \A t \in Threads : pc'[t] = "pop" => pc[t] = "pop"
    BY <1>2, <1>3, ThreadFacts
  <2>2. pc'[Pump] \notin Completing \union {"writeCancel"}
    BY <1>3 DEF Completing
  <2>3. \A c \in Clients : pc'[read(c)] \in Completing \union {"answer"} =>
          frame'[read(c)].c = c
    BY <1>0, <1>1, <2>1 DEF StationInv
  <2> QED BY <1>0, <1>1, <2>1, <2>2 DEF StationInv
<1>8. ASSUME NEW c \in Clients, First(c)
      PROVE  ClientInv(c)'
  <2>1. ClientInv(c) /\ KeepsThreads(c)
    BY <1>0, <1>2, <1>1, <1>3, <1>8, PumpKeepsThreads
  <2>2. AnswerInv(c)'
    BY <1>1, <2>1, AnswerFrame DEF ClientInv, KeepsThreads
  <2>3. ControlInv(c)'
    BY <1>1, <2>1 DEF ClientInv, ControlInv, KeepsThreads
  <2>4. ~Served'
    BY <1>3 DEF Served
  <2> QED BY <2>2, <2>3, <2>4 DEF ClientInv
<1> QED BY <1>1, <1>5, <1>6, <1>7, <1>8 DEF CalmInv, First

LEMMA PumpCheckStep ==
  ASSUME Base, CalmInv, PumpCheck
  PROVE  CalmInv'
<1>0. /\ Types /\ PumpInv /\ StationInv /\ LockInv
      /\ \A c \in Clients : First(c) => ClientInv(c)
  BY DEF CalmInv
<1>1. /\ pc[Pump] = "check"
      /\ Goto(Pump, IF pump.rdy /\ pump.q # NoQueue /\ heap[pump.q] # <<>>
                      THEN "dispatch" ELSE "loop")
      /\ use' = use /\ running' = running /\ queueMap' = queueMap /\ heap' = heap
      /\ pending' = pending /\ requestChannel' = requestChannel /\ timerC' = timerC
      /\ readyForDispatch' = readyForDispatch /\ ctx' = ctx /\ pump' = pump
      /\ frame' = frame /\ cbLock' = cbLock /\ callbacks' = callbacks
      /\ connected' = connected /\ connects' = connects /\ wire' = wire
      /\ answered' = answered /\ outcome' = outcome /\ Target' = Target
  BY DEF PumpCheck, channels, contexts, network, locks, Target
<1>2. use \in Uses
  BY DEF Base
<1>3. /\ pc' = [u \in Threads |-> pc'[u]] /\ pc'[Pump] \in {"dispatch", "loop"}
      /\ pc'[Pump] = "dispatch" => pump.rdy /\ pump.q # NoQueue
      /\ \A u \in Threads : u # Pump => pc'[u] = pc[u]
  BY <1>0, <1>1, GotoFacts, ThreadFacts DEF Types
<1>4. Types'
  BY <1>0, <1>1, <1>3 DEF Types
<1>5. PumpInv' /\ LockInv'
  BY <1>0, <1>1, <1>2, <1>3, PumpKeepsLock DEF PumpInv, Completing
<1>6. StationInv'
  BY <1>0, <1>1, <1>2, <1>3, StationFrame, ThreadFacts DEF Completing
<1>7. ASSUME NEW c \in Clients, First(c)
      PROVE  ClientInv(c)'
  <2>1. ClientInv(c) /\ KeepsThreads(c) /\ KeepsData(c)
    BY <1>0, <1>1, <1>2, <1>3, <1>7, PumpKeepsThreads, ThreadFacts DEF KeepsData
  <2>2. KeepsPump(c)
    BY <1>1, <1>3 DEF KeepsPump, Checking, Adding, Writing, Served
  <2> QED BY <1>1, <2>1, <2>2, ClientFrame
<1> QED BY <1>1, <1>4, <1>5, <1>6, <1>7 DEF CalmInv, First

LEMMA DispatchedFacts ==
  ASSUME Types, NEW k \in {"idle", "armed"}, Dispatched(k), pump.c \in Clients
  PROVE  /\ ctx' \in [Clients -> {"none", "idle", "armed"}] /\ ctx'[pump.c] = k
         /\ \A c \in Clients : c # pump.c => ctx'[c] = ctx[c]
         /\ DOMAIN pump' = {"c", "rdy", "q"} /\ pump'.c = pump.c /\ pump'.q = pump.q
         /\ pc' = [u \in Threads |-> pc'[u]] /\ pc'[Pump] = "loop"
         /\ \A u \in Threads : u # Pump => pc'[u] = pc[u]
<1>1. /\ ctx' = [ctx EXCEPT ![pump.c] = k] /\ pump' = [pump EXCEPT !.rdy = FALSE]
      /\ Goto(Pump, "loop")
  BY DEF Dispatched
<1>2. /\ ctx \in [Clients -> {"none", "idle", "armed"}] /\ DOMAIN pump = {"c", "rdy", "q"}
      /\ pc = [t \in Threads |-> pc[t]]
  BY DEF Types
<1>3. DOMAIN pump' = {"c", "rdy", "q"} /\ pump'.c = pump.c /\ pump'.q = pump.q
  BY <1>1, <1>2
<1>4. /\ ctx' \in [Clients -> {"none", "idle", "armed"}] /\ ctx'[pump.c] = k
      /\ \A c \in Clients : c # pump.c => ctx'[c] = ctx[c]
  BY <1>1, <1>2
<1> QED BY <1>1, <1>2, GotoFacts, ThreadFacts

LEMMA DispatchPeekStep ==
  ASSUME Base, CalmInv, DispatchPeek
  PROVE  CalmInv'
<1>0. /\ Types /\ PumpInv /\ StationInv /\ LockInv
      /\ \A c \in Clients : First(c) => ClientInv(c)
  BY DEF CalmInv
<1>1. /\ pc[Pump] = "dispatch"
      /\ use' = use /\ running' = running /\ queueMap' = queueMap /\ heap' = heap
      /\ pending' = pending /\ requestChannel' = requestChannel /\ timerC' = timerC
      /\ readyForDispatch' = readyForDispatch
      /\ cbLock' = cbLock /\ callbacks' = callbacks
      /\ connected' = connected /\ connects' = connects /\ wire' = wire
      /\ answered' = answered /\ outcome' = outcome /\ Target' = Target
  BY DEF DispatchPeek, channels, network, locks, Target
<1>2. PICK d \in Clients : d = pump.c /\ use \in Uses
  BY <1>0, <1>1 DEF Base, PumpInv
<1>3. Checking(d)
  BY <1>0, <1>1, <1>2 DEF PumpInv, Checking
<1>4. First(d) => FlightInv(d) /\ ctx[d] # "armed" /\ queueMap[d] # NoQueue
                    /\ queueMap[d] = <<d, 1>>
  BY <1>0, <1>3 DEF ClientInv, FlightInv, ControlInv, Served, Checking
<1>5. CASE queueMap[d] = NoQueue
  <2>1. Dispatched("idle") /\ frame' = frame
    BY <1>2, <1>5 DEF DispatchPeek
  <2>2. /\ ctx' \in [Clients -> {"none", "idle", "armed"}] /\ pc'[Pump] = "loop"
        /\ \A c \in Clients : c # d => ctx'[c] = ctx[c]
        /\ DOMAIN pump' = {"c", "rdy", "q"} /\ pump'.c = d /\ pump'.q = pump.q
        /\ pc' = [u \in Threads |-> pc'[u]]
        /\ \A u \in Threads : u # Pump => pc'[u] = pc[u]
    BY <1>0, <1>2, <2>1, DispatchedFacts
  <2>3. Types'
    BY <1>0, <1>1, <2>1, <2>2 DEF Types
  <2>4. PumpInv' /\ LockInv'
    BY <1>0, <1>1, <1>2, <2>2, PumpKeepsLock DEF PumpInv, Completing
  <2>5. StationInv'
    BY <1>0, <1>1, <1>2, <2>1, <2>2, StationFrame, ThreadFacts DEF Completing
  <2>6. ASSUME NEW c \in Clients, First(c)
        PROVE  ClientInv(c)'
    <3>1. ClientInv(c) /\ KeepsThreads(c) /\ KeepsData(c)
      BY <1>0, <1>1, <1>2, <2>1, <2>2, <2>6, PumpKeepsThreads DEF KeepsData
    <3>2. c # d
      BY <1>4, <1>5, <2>6
    <3>3. KeepsPump(c)
      BY <1>1, <2>2, <3>2 DEF KeepsPump, Checking, Adding, Writing, Served
    <3> QED BY <1>1, <3>1, <3>3, ClientFrame
  <2> QED BY <1>1, <2>3, <2>4, <2>5, <2>6 DEF CalmInv, First
<1>6. CASE queueMap[d] # NoQueue /\ heap[queueMap[d]] = <<>>
  <2>1. Goto(Pump, "panic") /\ frame' = frame /\ ctx' = ctx /\ pump' = pump
    BY <1>2, <1>6 DEF DispatchPeek
  <2>2. /\ pc' = [u \in Threads |-> pc'[u]] /\ pc'[Pump] = "panic"
        /\ \A u \in Threads : u # Pump => pc'[u] = pc[u]
    BY <1>0, <2>1, GotoFacts, ThreadFacts DEF Types
  <2>3. Types'
    BY <1>0, <1>1, <2>1, <2>2 DEF Types
  <2>4. PumpInv' /\ LockInv'
    BY <1>0, <1>1, <1>2, <2>2, PumpKeepsLock DEF PumpInv, Completing
  <2>5. StationInv'
    BY <1>0, <1>1, <1>2, <2>1, <2>2, StationFrame, ThreadFacts DEF Completing
  <2>6. ASSUME NEW c \in Clients, First(c)
        PROVE  ClientInv(c)'
    <3>1. ClientInv(c) /\ KeepsThreads(c) /\ KeepsData(c)
      BY <1>0, <1>1, <1>2, <2>1, <2>2, <2>6, PumpKeepsThreads DEF KeepsData
    <3>2. KeepsPump(c)
      BY <1>1, <2>1, <2>2 DEF KeepsPump, Checking, Adding, Writing, Served
    <3> QED BY <1>1, <3>1, <3>2, ClientFrame
  <2> QED BY <1>1, <2>3, <2>4, <2>5, <2>6 DEF CalmInv, First
<1>7. CASE queueMap[d] # NoQueue /\ heap[queueMap[d]] # <<>>
  <2>1. /\ frame' = [frame EXCEPT ![Pump].c = d, ![Pump].r = Head(heap[queueMap[d]])]
        /\ Goto(Pump, "add") /\ ctx' = ctx /\ pump' = pump
    BY <1>2, <1>7 DEF DispatchPeek
  <2>2. /\ pc' = [u \in Threads |-> pc'[u]] /\ pc'[Pump] = "add"
        /\ \A u \in Threads : u # Pump => pc'[u] = pc[u]
    BY <1>0, <2>1, GotoFacts, ThreadFacts DEF Types
  <2>3. heap[queueMap[d]] \in Seq(Requests)
    BY <1>0, <1>7 DEF Types
  <2>4. PICK h \in Requests : h = Head(heap[queueMap[d]]) /\ h = heap[queueMap[d]][1]
    BY <1>7, <2>3
  <2>5. /\ frame' \in [Threads -> Frames] /\ frame'[Pump].c = d /\ frame'[Pump].r = h
        /\ \A u \in Threads : u # Pump => frame'[u] = frame[u]
    <3>1. frame \in [Threads -> Frames] /\ frame[Pump] \in Frames
      BY <1>0, ThreadFacts DEF Types
    <3>2. PICK f \in Frames : f = frame[Pump]
      BY <3>1
    <3>3. frame' = [frame EXCEPT ![Pump] = [f EXCEPT !.c = d, !.r = h]]
      BY <2>1, <2>4, <3>2, ZenonT(20)
    <3>4. d \in Clients /\ h \in Requests
      OBVIOUS
    <3>5. /\ [f EXCEPT !.c = d, !.r = h] \in Frames
          /\ [f EXCEPT !.c = d, !.r = h].c = d
          /\ [f EXCEPT !.c = d, !.r = h].r = h
      <4> HIDE ThreadFacts
      <4> QED BY ZenonT(20) DEF Frames
    <3> QED BY <3>1, <3>3, <3>5, ThreadFacts
  <2>6. Types'
    BY <1>0, <1>1, <2>1, <2>2, <2>5 DEF Types
  <2>7. PumpInv' /\ LockInv'
    BY <1>0, <1>1, <1>2, <2>1, <2>2, <2>5, PumpKeepsLock DEF PumpInv, Completing
  <2>8. StationInv'
    BY <1>0, <1>1, <1>2, <2>1, <2>2, <2>5, StationFrame DEF Completing
  <2>9. ASSUME NEW c \in Clients, First(c)
        PROVE  ClientInv(c)'
    <3>1. ClientInv(c) /\ KeepsThreads(c) /\ KeepsData(c)
      BY <1>0, <1>1, <1>2, <2>2, <2>5, <2>9, PumpKeepsThreads DEF KeepsData
    <3>2. CASE c # d
      <4>1. KeepsPump(c)
        BY <1>1, <1>2, <2>1, <3>2 DEF KeepsPump, Checking, Adding, Writing, Served
      <4> QED BY <1>1, <3>1, <4>1, ClientFrame
    <3>3. CASE c = d
      <4>1. /\ ControlInv(d)' /\ AnswerInv(d)'
            /\ FlightInv(d) /\ QueueInv(d) /\ OrderInv(d)
        BY <1>1, <3>1, <3>3, ControlFrame, AnswerFrame DEF ClientInv, KeepsThreads, Served
      <4>2. Brought(d)' = Brought(d)
        BY <3>1, <3>3 DEF Brought, KeepsThreads
      <4>3. QueueInv(d)' /\ OrderInv(d)'
        BY <1>1, <3>1, <3>3, <4>1, <4>2, QueueFrame, OrderFrame DEF KeepsThreads
      <4>4. FlightInv(d)'
        <5>1. Queue(d)' = Queue(d) /\ Queue(d) = heap[queueMap[d]]
          BY <1>1, <1>4, <2>9, <3>3 DEF Queue
        <5>2. /\ ~Checking(d)' /\ ~Writing(d)' /\ ~Writing(d) /\ pc'[read(d)] = pc[read(d)]
              /\ frame'[read(d)] = frame[read(d)]
          BY <1>1, <2>2, <2>5, ThreadFacts DEF Checking, Writing
        <5>3. queueMap[d] # NoQueue /\ ctx[d] # "armed" /\ Queue(d) # <<>> /\ h = Queue(d)[1]
          BY <1>4, <1>7, <2>4, <2>9, <3>3, <5>1
        <5> QED BY <1>1, <2>1, <2>5, <4>1, <5>1, <5>2, <5>3 DEF FlightInv, Completing
      <4> QED BY <3>3, <4>1, <4>3, <4>4 DEF ClientInv
    <3> QED BY <3>2, <3>3
  <2> QED BY <1>1, <2>6, <2>7, <2>8, <2>9 DEF CalmInv, First
<1> QED BY <1>5, <1>6, <1>7

LEMMA AddPendingRequestStep ==
  ASSUME Base, CalmInv, AddPendingRequest
  PROVE  CalmInv'
<1>0. /\ Types /\ PumpInv /\ StationInv /\ LockInv
      /\ \A c \in Clients : First(c) => ClientInv(c)
  BY DEF CalmInv
<1>1. PICK d \in Clients : d = pump.c /\ frame[Pump].c = d /\ use \in Uses
  BY <1>0 DEF AddPendingRequest, Base, PumpInv
<1>2. /\ pc[Pump] = "add" /\ Goto(Pump, "write")
      /\ pending' = [pending EXCEPT ![d] = IF @ = NoReq THEN frame[Pump].r ELSE @]
      /\ use' = use /\ running' = running /\ queueMap' = queueMap /\ heap' = heap
      /\ requestChannel' = requestChannel /\ timerC' = timerC
      /\ readyForDispatch' = readyForDispatch /\ ctx' = ctx /\ pump' = pump
      /\ frame' = frame /\ cbLock' = cbLock /\ callbacks' = callbacks
      /\ connected' = connected /\ connects' = connects /\ wire' = wire
      /\ answered' = answered /\ outcome' = outcome /\ Target' = Target
  BY <1>1 DEF AddPendingRequest, channels, contexts, network, locks, Target
<1>3. /\ pc' = [u \in Threads |-> pc'[u]] /\ pc'[Pump] = "write"
      /\ \A u \in Threads : u # Pump => pc'[u] = pc[u]
  BY <1>0, <1>2, GotoFacts, ThreadFacts DEF Types
<1>4. /\ pending' \in [Clients -> Requests \union {NoReq}]
      /\ pending[d] = NoReq => pending'[d] = frame[Pump].r
      /\ \A c \in Clients : c # d => pending'[c] = pending[c]
  <2>1. frame[Pump].r \in Requests \union {NoReq}
    BY <1>0, ThreadFacts DEF Types, Frames
  <2>2. pending \in [Clients -> Requests \union {NoReq}]
    BY <1>0 DEF Types
  <2> QED BY <1>2, <2>1, <2>2
<1>5. Types'
  BY <1>0, <1>2, <1>3, <1>4 DEF Types
<1>6. PumpInv' /\ LockInv'
  BY <1>0, <1>1, <1>2, <1>3, PumpKeepsLock DEF PumpInv, Completing
<1>7. StationInv'
  BY <1>0, <1>1, <1>2, <1>3, StationFrame, ThreadFacts DEF Completing
<1>8. ASSUME NEW c \in Clients, First(c)
      PROVE  ClientInv(c)'
  <2>1. ClientInv(c) /\ KeepsThreads(c)
    BY <1>0, <1>1, <1>2, <1>3, <1>8, PumpKeepsThreads
  <2>2. CASE c # d
    <3>1. KeepsData(c)
      BY <1>2, <2>2 DEF KeepsData
    <3>2. KeepsPump(c)
      BY <1>1, <1>2, <2>2 DEF KeepsPump, Checking, Adding, Writing, Served
    <3> QED BY <1>2, <2>1, <3>1, <3>2, ClientFrame
  <2>3. CASE c = d
    <3>1. /\ ControlInv(d)' /\ AnswerInv(d)
          /\ FlightInv(d) /\ QueueInv(d) /\ OrderInv(d)
      BY <1>2, <2>1, <2>3, ControlFrame DEF ClientInv, Served
    <3>2. Brought(d)' = Brought(d) /\ Brought(d) \in {0, 1} /\ pc'[read(d)] = pc[read(d)]
      BY <1>3, ThreadFacts DEF Brought
    <3>3. Adding(d) /\ ~Writing(d) /\ Writing(d)' /\ ~Adding(d)' /\ ~Checking(d)'
      BY <1>1, <1>2, <1>3 DEF Adding, Writing, Checking
    <3>4. /\ ctx[d] # "armed" /\ queueMap[d] # NoQueue /\ pending[d] = NoReq
          /\ Queue(d) # <<>> /\ frame[Pump].r = Queue(d)[1]
          /\ readyForDispatch # <<d>> /\ pc[read(d)] \notin Completing
      BY <3>1, <3>3 DEF FlightInv
    <3>5. /\ Queue(d) \in Seq(Requests) /\ wire[d] \in Seq(Requests)
          /\ Queue(d)' = Queue(d) /\ pending'[d] = Queue(d)[1]
      BY <1>0, <1>2, <3>4, QueueFacts DEF Queue, Types
    <3>6. /\ Len(Queue(d)) \in Nat /\ Len(Queue(d)) > 0 /\ Queue(d)[1] \in Requests
          /\ NoReq \notin Requests
      BY <3>4, <3>5, OcppjServerAssumption
    <3>7. \A i \in 1..Len(Queue(d)) : Queue(d)[i] \notin Range(wire[d])
      <4>1. \A i \in 1..Len(Queue(d)) : Queue(d)[i] # NoReq
        BY <3>5, <3>6
      <4> QED BY <3>1, <3>4, <4>1 DEF QueueInv
    <3>8. FlightInv(d)'
      <4>1. /\ ctx' = ctx /\ readyForDispatch' = readyForDispatch
            /\ queueMap' = queueMap /\ wire' = wire /\ frame' = frame
        BY <1>2
      <4>2. /\ pending'[d] \notin Range(wire[d]) /\ pending'[d] = Queue(d)[1]
            /\ Queue(d)' = Queue(d)
        <5>1. 1 \in 1..Len(Queue(d))
          BY <3>6
        <5> QED BY <3>5, <3>7, <5>1
      <4>3. pc'[read(d)] \notin {"complete", "pop", "delete", "ready"}
        BY <3>2, <3>4 DEF Completing
      <4>4. ctx[d] # "armed" /\ queueMap[d] # NoQueue /\ readyForDispatch # <<d>>
        BY <3>4
      <4>5. Queue(d) # <<>> /\ frame[Pump].r = Queue(d)[1]
        BY <3>4
      <4> QED BY <3>3, <4>1, <4>2, <4>3, <4>4, <4>5 DEF FlightInv, Completing
    <3>9. QueueInv(d)'
      <4>1. \A i \in 1..Len(wire[d]) : wire[d][i] \in answered
        <5>1. \A i \in 1..Len(wire[d]) : wire[d][i] # NoReq
          BY <3>5, <3>6
        <5> QED BY <3>1, <3>4, <5>1 DEF QueueInv
      <4>2. \A r \in DOMAIN Target : Target[r] = d /\ pc'[send(r)] \in {"idle", "try", "push"} =>
              r \notin Range(Queue(d)) \union Range(wire[d])
        BY <2>1, <2>3, <3>1 DEF QueueInv, KeepsThreads
      <4>3. \A i, j \in 1..Len(Queue(d)) : Queue(d)[i] = Queue(d)[j] => i = j
        BY <3>1 DEF QueueInv
      <4> QED BY <1>2, <3>5, <3>7, <4>1, <4>2, <4>3 DEF QueueInv
    <3>10. OrderInv(d)'
      BY <1>2, <2>1, <2>3, <3>1, <3>2, OrderFrame DEF KeepsThreads
    <3>11. AnswerInv(d)'
      <4>1. callbacks[d][Brought(d) + 1] = Queue(d)[1]
        BY <3>1, <3>6 DEF OrderInv
      <4>2. Len(callbacks[d]) >= Brought(d) + 1
        BY <3>1, <3>2, <3>6 DEF OrderInv
      <4>3. frame'[read(d)] = frame[read(d)]
        BY <1>2
      <4> QED BY <1>2, <3>1, <3>2, <3>4, <3>5, <4>1, <4>2, ZenonT(20) DEF AnswerInv, Completing
    <3> QED BY <2>3, <3>1, <3>8, <3>9, <3>10, <3>11 DEF ClientInv
  <2> QED BY <2>2, <2>3
<1> QED BY <1>2, <1>5, <1>6, <1>7, <1>8 DEF CalmInv, First

LEMMA DispatchWriteStep ==
  ASSUME Base, CalmInv, DispatchWrite
  PROVE  CalmInv'
<1>0. /\ Types /\ PumpInv /\ StationInv /\ LockInv
      /\ \A c \in Clients : First(c) => ClientInv(c)
  BY DEF CalmInv
<1>1. PICK d \in Clients : d = pump.c /\ frame[Pump].c = d /\ use \in Uses
  BY <1>0 DEF DispatchWrite, Base, PumpInv
<1>2. PICK x \in Requests : x = frame[Pump].r
  BY <1>0 DEF DispatchWrite, PumpInv
<1>3. /\ pc[Pump] = "write"
      /\ use' = use /\ running' = running /\ queueMap' = queueMap /\ heap' = heap
      /\ pending' = pending /\ requestChannel' = requestChannel /\ timerC' = timerC
      /\ readyForDispatch' = readyForDispatch
      /\ cbLock' = cbLock /\ callbacks' = callbacks
      /\ connected' = connected /\ connects' = connects
      /\ answered' = answered /\ outcome' = outcome /\ Target' = Target
  BY DEF DispatchWrite, channels, locks, Target
<1>4. First(d) => ClientInv(d) /\ FlightInv(d) /\ d \in connected /\ Writing(d)
  <2>1. Writing(d) /\ Served
    BY <1>1, <1>3 DEF Writing, Served
  <2> QED BY <1>0, <2>1 DEF ClientInv, FlightInv, ControlInv
<1>5. CASE d \in connected
  <2>1. /\ wire' = [wire EXCEPT ![d] = Append(@, x)]
        /\ Dispatched("armed") /\ Return(Pump)
    BY <1>1, <1>2, <1>5 DEF DispatchWrite
  <2>2. /\ ctx' \in [Clients -> {"none", "idle", "armed"}] /\ ctx'[d] = "armed"
        /\ \A c \in Clients : c # d => ctx'[c] = ctx[c]
        /\ DOMAIN pump' = {"c", "rdy", "q"} /\ pump'.c = d /\ pump'.q = pump.q
        /\ pc' = [u \in Threads |-> pc'[u]] /\ pc'[Pump] = "loop"
        /\ \A u \in Threads : u # Pump => pc'[u] = pc[u]
    BY <1>0, <1>1, <2>1, DispatchedFacts
  <2>3. /\ frame' \in [Threads -> Frames]
        /\ \A u \in Threads : u # Pump => frame'[u] = frame[u]
    <3>1. frame \in [Threads -> Frames]
      BY <1>0 DEF Types
    <3> QED BY <2>1, <3>1, ReturnFacts, ThreadFacts
  <2>4. /\ wire[d] \in Seq(Requests) /\ wire' \in [Clients -> Seq(Requests)]
        /\ wire'[d] = Append(wire[d], x)
        /\ \A c \in Clients : c # d => wire'[c] = wire[c]
    <3>1. wire \in [Clients -> Seq(Requests)]
      BY <1>0 DEF Types
    <3>2. Append(wire[d], x) \in Seq(Requests)
      BY <3>1
    <3> QED BY <2>1, <3>1
  <2>5. Types'
    BY <1>0, <1>3, <2>2, <2>3, <2>4 DEF Types
  <2>6. PumpInv' /\ LockInv'
    BY <1>0, <1>1, <1>3, <2>2, PumpKeepsLock DEF PumpInv, Completing
  <2>7. StationInv'
    BY <1>0, <1>1, <1>3, <2>2, <2>3, StationFrame, ThreadFacts DEF Completing
  <2>8. ASSUME NEW c \in Clients, First(c)
        PROVE  ClientInv(c)'
    <3>1. ClientInv(c) /\ KeepsThreads(c)
      BY <1>0, <1>1, <2>2, <2>3, <2>8, PumpKeepsThreads
    <3>2. CASE c # d
      <4>1. KeepsData(c)
        BY <1>3, <2>4, <3>2 DEF KeepsData
      <4>2. KeepsPump(c)
        BY <1>1, <1>3, <2>2, <3>2 DEF KeepsPump, Checking, Adding, Writing, Served
      <4> QED BY <1>3, <3>1, <4>1, <4>2, ClientFrame
    <3>3. CASE c = d
      <4>1. /\ ControlInv(d)' /\ AnswerInv(d)
            /\ FlightInv(d) /\ QueueInv(d) /\ OrderInv(d)
        BY <1>3, <3>1, <3>3, ControlFrame DEF ClientInv, Served
      <4>2. /\ Brought(d)' = Brought(d) /\ pc'[read(d)] = pc[read(d)]
            /\ frame'[read(d)] = frame[read(d)]
        BY <2>2, <2>3, ThreadFacts DEF Brought
      <4>3. /\ ctx[d] # "armed" /\ queueMap[d] # NoQueue /\ pending[d] = x
            /\ Queue(d) # <<>> /\ x = Queue(d)[1] /\ x \notin Range(wire[d])
            /\ readyForDispatch # <<d>> /\ pc[read(d)] \notin Completing
        BY <1>2, <1>4, <2>8, <3>3 DEF FlightInv
      <4>4. /\ Len(wire[d]) \in Nat /\ Len(wire'[d]) = Len(wire[d]) + 1
            /\ \A k \in 1..Len(wire[d]) : wire'[d][k] = wire[d][k]
            /\ wire'[d][Len(wire[d]) + 1] = x
            /\ Range(wire'[d]) = Range(wire[d]) \union {x}
            /\ \A k \in 1..Len(wire[d]) : wire[d][k] # x
        BY <2>4, <4>3, AppendFacts, RangeFacts
      <4>5. /\ Queue(d)' = Queue(d) /\ Queue(d) \in Seq(Requests)
            /\ Len(Queue(d)) \in Nat /\ Len(Queue(d)) > 0 /\ x \in Range(Queue(d))
        <5>1. Queue(d)' = Queue(d) /\ Queue(d) \in Seq(Requests)
          BY <1>0, <1>3, QueueFacts DEF Queue, Types
        <5> QED BY <4>3, <5>1, TailFacts
      <4>6. FlightInv(d)'
        <5>1. ~Checking(d)' /\ ~Adding(d)' /\ ~Writing(d)'
          BY <2>2 DEF Checking, Adding, Writing
        <5> QED BY <1>3, <2>2, <4>2, <4>3, <4>4, <4>5, <5>1 DEF FlightInv, Completing
      <4>7. QueueInv(d)'
        <5>1. \A i, j \in 1..Len(Queue(d)) : Queue(d)[i] = Queue(d)[j] => i = j
          BY <4>1 DEF QueueInv
        <5>2. \A i \in 1..Len(Queue(d)) :
                Queue(d)[i] \in Range(wire'[d]) => i = 1 /\ Queue(d)[i] = pending[d]
          BY <4>1, <4>3, <4>4 DEF QueueInv
        <5>3. \A r \in DOMAIN Target : Target[r] = d /\ pc'[send(r)] \in {"idle", "try", "push"} =>
                r \notin Range(Queue(d)) \union Range(wire'[d])
          BY <3>1, <3>3, <4>1, <4>4, <4>5 DEF QueueInv, KeepsThreads
        <5>4. \A i \in 1..Len(wire'[d]) : wire'[d][i] \in answered \/ wire'[d][i] = pending[d]
          <6> DEFINE n == Len(wire[d])
          <6>0. n \in Nat /\ Len(wire'[d]) = n + 1
            BY <4>4
          <6> HIDE DEF n
          <6>1. \A i \in 1..Len(wire'[d]) : i \in 1..n \/ i = n + 1
            BY <6>0
          <6>2. \A i \in 1..n : wire[d][i] \in answered \/ wire[d][i] = pending[d]
            BY <4>1 DEF QueueInv, n
          <6>3. wire'[d][n + 1] = x /\ \A k \in 1..n : wire'[d][k] = wire[d][k]
            BY <4>4 DEF n
          <6> QED BY <4>3, <6>1, <6>2, <6>3, ThreadFacts
        <5> QED BY <1>3, <4>5, <5>1, <5>2, <5>3, <5>4 DEF QueueInv
      <4>8. OrderInv(d)'
        BY <1>3, <3>1, <3>3, <4>1, <4>2, OrderFrame DEF KeepsThreads
      <4>9. AnswerInv(d)'
        <5>1. \A i, j \in 1..Len(wire'[d]) : wire'[d][i] = wire'[d][j] => i = j
          <6>1. \A i \in 1..Len(wire'[d]) : i \in 1..Len(wire[d]) \/ i = Len(wire[d]) + 1
            BY <4>4
          <6>2. \A i, j \in 1..Len(wire[d]) : wire[d][i] = wire[d][j] => i = j
            BY <4>1 DEF AnswerInv
          <6> QED BY <4>4, <6>1, <6>2, ZenonT(20)
        <5>2. \A i \in 1..(Len(wire'[d]) - 1) : wire'[d][i] \in answered
          <6>1. \A i \in 1..Len(wire[d]) : wire[d][i] \in answered
            BY <4>1, <4>3, <4>4 DEF QueueInv
          <6> QED BY <4>4, <6>1
        <5> QED BY <1>3, <4>1, <4>2, <5>1, <5>2 DEF AnswerInv
      <4> QED BY <3>3, <4>1, <4>6, <4>7, <4>8, <4>9 DEF ClientInv
    <3> QED BY <3>2, <3>3
  <2> QED BY <1>3, <2>5, <2>6, <2>7, <2>8 DEF CalmInv, First
<1>6. CASE d \notin connected
  <2>1. /\ frame' = [frame EXCEPT ![Pump] =
                        [c |-> d, r |-> x, q |-> NoQueue, then |-> "writeCancel"]]
        /\ Goto(Pump, "complete") /\ wire' = wire /\ ctx' = ctx /\ pump' = pump
    BY <1>1, <1>2, <1>6 DEF DispatchWrite, CallComplete
  <2>2. /\ pc' = [u \in Threads |-> pc'[u]] /\ pc'[Pump] = "complete"
        /\ \A u \in Threads : u # Pump => pc'[u] = pc[u]
    BY <1>0, <2>1, GotoFacts, ThreadFacts DEF Types
  <2>3. /\ frame' \in [Threads -> Frames]
        /\ frame'[Pump] = [c |-> d, r |-> x, q |-> NoQueue, then |-> "writeCancel"]
        /\ \A u \in Threads : u # Pump => frame'[u] = frame[u]
    <3>1. [c |-> d, r |-> x, q |-> NoQueue, then |-> "writeCancel"] \in Frames
      BY DEF Frames
    <3>2. frame \in [Threads -> Frames]
      BY <1>0 DEF Types
    <3> QED BY <2>1, <3>1, <3>2, ThreadFacts
  <2>4. ~First(d)
    BY <1>4, <1>6
  <2>5. Types'
    BY <1>0, <1>3, <2>1, <2>2, <2>3 DEF Types
  <2>6. PumpInv' /\ LockInv'
    BY <1>0, <1>1, <1>3, <2>1, <2>2, <2>3, PumpKeepsLock DEF PumpInv, Completing
  <2>7. StationInv'
    BY <1>0, <1>1, <1>3, <2>1, <2>2, <2>4, StationFrame, ThreadFacts
  <2>8. ASSUME NEW c \in Clients, First(c)
        PROVE  ClientInv(c)'
    <3>1. c # d
      BY <2>4, <2>8
    <3>2. ClientInv(c) /\ KeepsThreads(c) /\ KeepsData(c)
      BY <1>0, <1>1, <1>3, <2>1, <2>2, <2>8, PumpKeepsThreads DEF KeepsData
    <3>3. KeepsPump(c)
      BY <1>1, <1>3, <2>1, <3>1 DEF KeepsPump, Checking, Adding, Writing, Served
    <3> QED BY <1>3, <3>2, <3>3, ClientFrame
  <2> QED BY <1>3, <2>5, <2>6, <2>7, <2>8 DEF CalmInv, First
<1> QED BY <1>5, <1>6

LEMMA RequestCanceledStep ==
  ASSUME Base, CalmInv, RequestCanceled
  PROVE  CalmInv'
<1>0. /\ Types /\ PumpInv /\ StationInv /\ LockInv
      /\ \A c \in Clients : First(c) => ClientInv(c)
  BY DEF CalmInv
<1>1. pc[Pump] = "writeCancel"
  BY <1>0 DEF RequestCanceled, PumpInv, Completing
<1>2. PICK d \in Clients : d = pump.c /\ frame[Pump].c = d /\ use \in Uses
  BY <1>0, <1>1 DEF Base, PumpInv
<1>3. /\ Dequeue(d, "canceled") /\ Return(Pump) /\ Dispatched("idle")
      /\ use' = use /\ running' = running /\ queueMap' = queueMap /\ heap' = heap
      /\ pending' = pending /\ requestChannel' = requestChannel /\ timerC' = timerC
      /\ readyForDispatch' = readyForDispatch /\ cbLock' = cbLock
      /\ connected' = connected /\ connects' = connects /\ wire' = wire
      /\ answered' = answered /\ Target' = Target
  BY <1>1, <1>2 DEF RequestCanceled, channels, network, locks, Target
<1>4. /\ ctx' \in [Clients -> {"none", "idle", "armed"}] /\ pc'[Pump] = "loop"
      /\ \A c \in Clients : c # d => ctx'[c] = ctx[c]
      /\ DOMAIN pump' = {"c", "rdy", "q"} /\ pump'.c = d /\ pump'.q = pump.q
      /\ pc' = [u \in Threads |-> pc'[u]]
      /\ \A u \in Threads : u # Pump => pc'[u] = pc[u]
  BY <1>0, <1>2, <1>3, DispatchedFacts
<1>5. /\ frame \in [Threads -> Frames] /\ callbacks \in [Clients -> Seq(Requests)]
      /\ outcome = [r \in Requests |-> outcome[r]]
  BY <1>0 DEF Types
<1>6. /\ frame' \in [Threads -> Frames]
      /\ \A u \in Threads : u # Pump => frame'[u] = frame[u]
  BY <1>3, <1>5, ReturnFacts, ThreadFacts
<1>7. /\ callbacks' \in [Clients -> Seq(Requests)]
      /\ outcome' = [r \in Requests |-> outcome'[r]]
      /\ \A c \in Clients : CallbacksOf(callbacks'[c], c)
      /\ \A c \in Clients : c # d => callbacks'[c] = callbacks[c]
      /\ \A r \in DOMAIN Target : Target[r] # d => outcome'[r] = outcome[r]
  BY <1>0, <1>2, <1>3, <1>5, DequeueFacts, ZenonT(20)
<1>8. Types'
  BY <1>0, <1>3, <1>4, <1>6, <1>7 DEF Types
<1>9. PumpInv' /\ LockInv'
  BY <1>0, <1>2, <1>3, <1>4, PumpKeepsLock DEF PumpInv, Completing
<1>10. StationInv'
  BY <1>0, <1>2, <1>3, <1>4, <1>6, <1>7, StationFrame, ThreadFacts DEF Completing
<1>11. ASSUME NEW c \in Clients, First(c)
       PROVE  ClientInv(c)'
  <2>1. c # d
    BY <1>0, <1>1, <1>2, <1>11 DEF StationInv
  <2>2. ClientInv(c) /\ KeepsThreads(c)
    BY <1>0, <1>2, <1>4, <1>6, <1>11, PumpKeepsThreads
  <2>3. KeepsData(c)
    BY <1>3, <1>7, <2>1 DEF KeepsData
  <2>4. KeepsPump(c)
    BY <1>1, <1>3, <1>4, <2>1 DEF KeepsPump, Checking, Adding, Writing, Served
  <2> QED BY <1>3, <2>2, <2>3, <2>4, ClientFrame
<1> QED BY <1>3, <1>8, <1>9, <1>10, <1>11 DEF CalmInv, First

-----------------------------------------------------------------------------
(* CompleteRequest.                                                        *)

\* CompletePeek, of the pump and of a read goroutine.
LEMMA PeekFacts ==
  ASSUME Types, StationInv, NEW t \in Threads, CompletePeek(t), NEW d \in Clients,
         d = frame[t].c
  PROVE  /\ pc' = [u \in Threads |-> pc'[u]] /\ pc'[t] \in {"pop", frame[t].then}
         /\ \A u \in Threads : u # t => pc'[u] = pc[u] /\ frame'[u] = frame[u]
         /\ frame' \in [Threads -> Frames] /\ frame'[t].c = d
         /\ frame'[t].r = frame[t].r /\ frame'[t].then = frame[t].then
         /\ pc'[t] = "pop" => /\ frame'[t].q \in Queues /\ frame'[t].q = queueMap[d]
                              /\ frame'[t].q[1] = d
         /\ \/ pc'[t] = "pop"
            \/ /\ pc'[t] = frame[t].then
               /\ \/ queueMap[d] = NoQueue
                  \/ heap[queueMap[d]] = <<>>
                  \/ heap[queueMap[d]][1] # frame[t].r
<1>1. /\ frame \in [Threads -> Frames] /\ frame[t] \in Frames
      /\ queueMap[d] \in Queues \union {NoQueue} /\ pc = [u \in Threads |-> pc[u]]
      /\ queueMap[d] # NoQueue => heap[queueMap[d]] \in Seq(Requests)
  BY DEF Types
<1>2. PICK f \in Frames : f = frame[t] /\ f.then \in {"idle", "answer", "timeoutCancel", "writeCancel"}
  BY <1>1 DEF Frames
<1>3. CASE queueMap[d] # NoQueue /\ heap[queueMap[d]] # <<>> /\ Head(heap[queueMap[d]]) = frame[t].r
  <2>1. Goto(t, "pop") /\ frame' = [frame EXCEPT ![t].q = queueMap[d]]
    BY <1>3 DEF CompletePeek
  <2>2. frame' = [frame EXCEPT ![t] = [f EXCEPT !.q = queueMap[d]]]
    BY <1>2, <2>1
  <2>3. /\ [f EXCEPT !.q = queueMap[d]] \in Frames
        /\ [f EXCEPT !.q = queueMap[d]].q = queueMap[d]
        /\ [f EXCEPT !.q = queueMap[d]].c = f.c /\ [f EXCEPT !.q = queueMap[d]].r = f.r
        /\ [f EXCEPT !.q = queueMap[d]].then = f.then
    BY <1>1, <1>2, FrameFacts
  <2>4. queueMap[d] \in Queues /\ queueMap[d][1] = d
    BY <1>1, <1>3 DEF StationInv
  <2>5. /\ pc' = [u \in Threads |-> pc'[u]] /\ pc'[t] = "pop"
        /\ \A u \in Threads : u # t => pc'[u] = pc[u]
    BY <1>1, <2>1, GotoFacts
  <2>6. /\ frame' \in [Threads -> Frames] /\ frame'[t] = [f EXCEPT !.q = queueMap[d]]
        /\ \A u \in Threads : u # t => frame'[u] = frame[u]
    BY <1>1, <2>2, <2>3
  <2> QED BY <1>2, <2>4, <2>5, <2>6
<1>4. CASE ~(queueMap[d] # NoQueue /\ heap[queueMap[d]] # <<>> /\ Head(heap[queueMap[d]]) = frame[t].r)
  <2>1. Goto(t, frame[t].then) /\ frame' = frame
    BY <1>4 DEF CompletePeek
  <2>2. /\ pc' = [u \in Threads |-> pc'[u]] /\ pc'[t] = frame[t].then
        /\ \A u \in Threads : u # t => pc'[u] = pc[u]
    BY <1>1, <2>1, GotoFacts
  <2>3. queueMap[d] # NoQueue /\ heap[queueMap[d]] # <<>> =>
          Head(heap[queueMap[d]]) = heap[queueMap[d]][1]
    OBVIOUS
  <2>4. pc'[t] # "pop"
    BY <1>2, <2>2
  <2> QED BY <1>1, <1>4, <2>1, <2>2, <2>4
<1> QED BY <1>3, <1>4

LEMMA PumpCompletePeekStep ==
  ASSUME Base, CalmInv, CompletePeek(Pump)
  PROVE  CalmInv'
<1>0. /\ Types /\ PumpInv /\ StationInv /\ LockInv
      /\ \A c \in Clients : First(c) => ClientInv(c)
  BY DEF CalmInv
<1>1. /\ pc[Pump] = "complete"
      /\ use' = use /\ running' = running /\ queueMap' = queueMap /\ heap' = heap
      /\ pending' = pending /\ requestChannel' = requestChannel /\ timerC' = timerC
      /\ readyForDispatch' = readyForDispatch /\ ctx' = ctx /\ pump' = pump
      /\ cbLock' = cbLock /\ callbacks' = callbacks
      /\ connected' = connected /\ connects' = connects /\ wire' = wire
      /\ answered' = answered /\ outcome' = outcome /\ Target' = Target
  BY DEF CompletePeek, channels, contexts, network, locks, Target
<1>2. PICK d \in Clients : /\ d = pump.c /\ frame[Pump].c = d /\ use \in Uses /\ ~First(d)
                           /\ frame[Pump].then = "writeCancel"
  BY <1>0, <1>1 DEF Base, PumpInv, StationInv
<1>3. /\ pc' = [u \in Threads |-> pc'[u]] /\ pc'[Pump] \in {"pop", "writeCancel"}
      /\ \A u \in Threads : u # Pump => pc'[u] = pc[u] /\ frame'[u] = frame[u]
      /\ frame' \in [Threads -> Frames] /\ frame'[Pump].c = d
      /\ frame'[Pump].then = "writeCancel"
      /\ pc'[Pump] = "pop" => frame'[Pump].q \in Queues /\ frame'[Pump].q[1] = d
  BY <1>0, <1>2, PeekFacts, ThreadFacts
<1>4. Types'
  BY <1>0, <1>1, <1>3 DEF Types
<1>5. PumpInv' /\ LockInv'
  BY <1>0, <1>1, <1>2, <1>3, PumpKeepsLock DEF PumpInv, Completing
<1>6. StationInv'
  BY <1>0, <1>1, <1>2, <1>3, StationFrame, ThreadFacts
<1>7. ASSUME NEW c \in Clients, First(c)
      PROVE  ClientInv(c)'
  <2>1. c # d
    BY <1>2, <1>7
  <2>2. ClientInv(c) /\ KeepsThreads(c) /\ KeepsData(c)
    BY <1>0, <1>1, <1>2, <1>3, <1>7, PumpKeepsThreads DEF KeepsData
  <2>3. KeepsPump(c)
    BY <1>1, <1>3 DEF KeepsPump, Checking, Adding, Writing, Served
  <2> QED BY <1>1, <2>2, <2>3, ClientFrame
<1> QED BY <1>1, <1>4, <1>5, <1>6, <1>7 DEF CalmInv, First

\* The steps after it: what they change is of the station of the goroutine's frame.
LEMMA PumpCompleteStep ==
  ASSUME Base, CalmInv,
         CompletePop(Pump) \/ DeletePendingRequest(Pump) \/ SignalReady(Pump)
  PROVE  CalmInv'
<1>0. /\ Types /\ PumpInv /\ StationInv /\ LockInv
      /\ \A c \in Clients : First(c) => ClientInv(c)
  BY DEF CalmInv
<1>1. /\ pc[Pump] \in Completing /\ frame' = frame
      /\ use' = use /\ running' = running /\ queueMap' = queueMap
      /\ requestChannel' = requestChannel /\ timerC' = timerC
      /\ ctx' = ctx /\ pump' = pump
      /\ cbLock' = cbLock /\ callbacks' = callbacks
      /\ connected' = connected /\ connects' = connects /\ wire' = wire
      /\ answered' = answered /\ outcome' = outcome /\ Target' = Target
  BY DEF CompletePop, DeletePendingRequest, SignalReady, channels, contexts, network, locks,
     Target, Completing
<1>2. PICK d \in Clients : /\ d = pump.c /\ frame[Pump].c = d /\ use \in Uses /\ ~First(d)
                           /\ frame[Pump].then = "writeCancel"
  BY <1>0, <1>1 DEF Base, PumpInv, StationInv
<1>3. /\ pc' = [u \in Threads |-> pc'[u]] /\ pc'[Pump] \in {"delete", "ready", "writeCancel"}
      /\ \A u \in Threads : u # Pump => pc'[u] = pc[u]
  BY <1>0, <1>2, GotoFacts, ThreadFacts DEF CompletePop, DeletePendingRequest, SignalReady,
     Types
<1>4. /\ heap' \in [Queues -> Seq(Requests)]
      /\ \A c \in Clients : c # d => heap'[<<c, 1>>] = heap[<<c, 1>>]
  <2>1. CASE CompletePop(Pump)
    <3>1. PICK q \in Queues : q = frame[Pump].q /\ q[1] = d
      BY <1>0, <1>2, <2>1, ThreadFacts DEF CompletePop, StationInv
    <3>2. heap' = [heap EXCEPT ![q] = IF @ = <<>> THEN @ ELSE Tail(@)]
      BY <2>1, <3>1 DEF CompletePop
    <3>3. heap \in [Queues -> Seq(Requests)]
      BY <1>0 DEF Types
    <3>4. heap[q] # <<>> => Tail(heap[q]) \in Seq(Requests)
      BY <3>3
    <3> QED BY <3>1, <3>2, <3>3
  <2>2. CASE heap' = heap
    BY <1>0, <2>2 DEF Types
  <2> QED BY <2>1, <2>2 DEF DeletePendingRequest, SignalReady
<1>5. /\ pending' \in [Clients -> Requests \union {NoReq}]
      /\ \A c \in Clients : c # d => pending'[c] = pending[c]
  <2>1. CASE pending' = [pending EXCEPT ![d] = IF @ = frame[Pump].r THEN NoReq ELSE @]
    BY <1>0, <2>1 DEF Types
  <2>2. CASE pending' = pending
    BY <1>0, <2>2 DEF Types
  <2> QED BY <1>2, <2>1, <2>2 DEF CompletePop, DeletePendingRequest, SignalReady
<1>6. readyForDispatch' \in {readyForDispatch, <<d>>}
  BY <1>2 DEF CompletePop, DeletePendingRequest, SignalReady, channels
<1>7. Types'
  BY <1>0, <1>1, <1>3, <1>4, <1>5, <1>6, ThreadFacts DEF Types, Slot
<1>8. PumpInv' /\ LockInv'
  BY <1>0, <1>1, <1>2, <1>3, PumpKeepsLock DEF PumpInv, Completing
<1>9. StationInv'
  BY <1>0, <1>1, <1>2, <1>3, StationFrame, ThreadFacts
<1>10. ASSUME NEW c \in Clients, First(c)
       PROVE  ClientInv(c)'
  <2>1. c # d
    BY <1>2, <1>10
  <2>2. ClientInv(c) /\ KeepsThreads(c)
    BY <1>0, <1>1, <1>2, <1>3, <1>10, PumpKeepsThreads
  <2>3. KeepsData(c)
    BY <1>1, <1>4, <1>5, <2>1 DEF KeepsData
  <2>4. KeepsPump(c)
    BY <1>1, <1>3, <1>6, <2>1 DEF KeepsPump, Checking, Adding, Writing, Served, Completing
  <2> QED BY <1>1, <2>2, <2>3, <2>4, ClientFrame
<1> QED BY <1>1, <1>7, <1>8, <1>9, <1>10 DEF CalmInv, First

\* The read goroutine of an earlier connection completes a request: what it changes
\* is of a station that is not on its first one.
LEMMA OldReadFacts ==
  ASSUME CalmInv, OldInv, NEW d \in Clients, pc[oldRead(d)] # "idle"
  PROVE  /\ ~First(d) /\ oldRead(d) \in Threads /\ oldRead(d) # Pump
         /\ \A r \in Requests : oldRead(d) # send(r)
         /\ \A c \in Clients : oldRead(d) \notin {read(c), open(c), close(c)}
<1>1. connects[d] >= 2
  BY DEF OldInv
<1>2. connects[d] \in Nat
  BY OcppjServerAssumption DEF CalmInv, Types
<1> QED BY <1>1, <1>2, OldFacts DEF First

LEMMA OldPeekStep ==
  ASSUME Base, CalmInv, OldInv, NEW d \in Clients, CompletePeek(oldRead(d))
  PROVE  CalmInv'
<1> DEFINE t == oldRead(d)
<1>0. /\ Types /\ PumpInv /\ StationInv /\ LockInv
      /\ \A c \in Clients : First(c) => ClientInv(c)
  BY DEF CalmInv
<1>1. /\ pc[t] = "complete"
      /\ use' = use /\ running' = running /\ queueMap' = queueMap /\ heap' = heap
      /\ pending' = pending /\ requestChannel' = requestChannel /\ timerC' = timerC
      /\ readyForDispatch' = readyForDispatch /\ ctx' = ctx /\ pump' = pump
      /\ cbLock' = cbLock /\ callbacks' = callbacks
      /\ connected' = connected /\ connects' = connects /\ wire' = wire
      /\ answered' = answered /\ outcome' = outcome /\ Target' = Target
  BY DEF CompletePeek, channels, contexts, network, locks, Target
<1>2. /\ ~First(d) /\ t \in Threads /\ t # Pump
      /\ \A r \in Requests : t # send(r)
      /\ \A c \in Clients : t \notin {read(c), open(c), close(c)}
  BY <1>1, OldReadFacts
<1>3. use \in Uses /\ DOMAIN Target \subseteq Requests /\ frame[t].c = d
  BY <1>1, TargetFacts DEF Base, OldInv, Completing
<1>4. /\ pc' = [u \in Threads |-> pc'[u]]
      /\ \A u \in Threads : u # t => pc'[u] = pc[u] /\ frame'[u] = frame[u]
      /\ frame' \in [Threads -> Frames] /\ frame'[t].c = d
      /\ pc'[t] = "pop" => frame'[t].q \in Queues /\ frame'[t].q[1] = d
  BY <1>0, <1>2, <1>3, PeekFacts
<1> HIDE DEF t
<1>5. Types'
  BY <1>0, <1>1, <1>4 DEF Types
<1>6. PumpInv'
  BY <1>0, <1>1, <1>2, <1>4, PumpFrame, ThreadFacts
<1>7. LockInv'
  BY <1>0, <1>1, <1>2, <1>3, <1>4, LockFrame, ThreadFacts DEF Holds
<1>8. StationInv'
  BY <1>0, <1>1, <1>2, <1>3, <1>4, StationFrame
<1>9. ASSUME NEW c \in Clients, First(c)
      PROVE  ClientInv(c)'
  <2>1. ClientInv(c) /\ KeepsThreads(c)
    BY <1>0, <1>2, <1>3, <1>4, <1>9, ThreadsKept
  <2>2. KeepsData(c)
    BY <1>1 DEF KeepsData
  <2>3. KeepsPump(c)
    BY <1>1, <1>2, <1>4, PumpKept, ThreadFacts
  <2> QED BY <1>1, <2>1, <2>2, <2>3, ClientFrame
<1> QED BY <1>1, <1>5, <1>6, <1>7, <1>8, <1>9 DEF CalmInv, First

LEMMA OldCompleteStep ==
  ASSUME Base, CalmInv, OldInv, NEW d \in Clients,
         \/ CompletePop(oldRead(d)) \/ DeletePendingRequest(oldRead(d))
         \/ SignalReady(oldRead(d))
  PROVE  CalmInv'
<1> DEFINE t == oldRead(d)
<1>0. /\ Types /\ PumpInv /\ StationInv /\ LockInv
      /\ \A c \in Clients : First(c) => ClientInv(c)
  BY DEF CalmInv
<1>1. /\ pc[t] \in Completing /\ frame' = frame
      /\ use' = use /\ running' = running /\ queueMap' = queueMap
      /\ requestChannel' = requestChannel /\ timerC' = timerC
      /\ ctx' = ctx /\ pump' = pump
      /\ cbLock' = cbLock /\ callbacks' = callbacks
      /\ connected' = connected /\ connects' = connects /\ wire' = wire
      /\ answered' = answered /\ outcome' = outcome /\ Target' = Target
  BY DEF CompletePop, DeletePendingRequest, SignalReady, channels, contexts, network, locks,
     Target, Completing
<1>2. /\ ~First(d) /\ t \in Threads /\ t # Pump
      /\ \A r \in Requests : t # send(r)
      /\ \A c \in Clients : t \notin {read(c), open(c), close(c)}
  BY <1>1, OldReadFacts DEF Completing
<1>3. use \in Uses /\ DOMAIN Target \subseteq Requests /\ frame[t].c = d
  BY <1>1, TargetFacts DEF Base, OldInv
<1>4. /\ pc' = [u \in Threads |-> pc'[u]] /\ pc'[t] # "pop"
      /\ \A u \in Threads : u # t => pc'[u] = pc[u]
  <2>1. frame[t].then # "pop"
    <3>1. frame[t] \in Frames
      BY <1>0, <1>2 DEF Types
    <3> HIDE DEF t
    <3> QED BY <3>1 DEF Frames
  <2>2. pc = [u \in Threads |-> pc[u]]
    BY <1>0 DEF Types
  <2>3. Goto(t, "delete") \/ Goto(t, "ready") \/ Goto(t, frame[t].then)
    BY DEF CompletePop, DeletePendingRequest, SignalReady
  <2> HIDE DEF t
  <2>4. CASE Goto(t, "delete")
    BY <1>2, <2>2, <2>4, GotoFacts
  <2>5. CASE Goto(t, "ready")
    BY <1>2, <2>2, <2>5, GotoFacts
  <2>6. CASE Goto(t, frame[t].then)
    BY <1>2, <2>1, <2>2, <2>6, GotoFacts
  <2> QED BY <2>3, <2>4, <2>5, <2>6
<1>5. /\ heap' \in [Queues -> Seq(Requests)]
      /\ \A c \in Clients : c # d => heap'[<<c, 1>>] = heap[<<c, 1>>]
  <2>1. CASE CompletePop(t)
    <3>1. PICK q \in Queues : q = frame[t].q /\ q[1] = d
      BY <1>0, <1>2, <1>3, <2>1 DEF CompletePop, StationInv
    <3>2. heap' = [heap EXCEPT ![q] = IF @ = <<>> THEN @ ELSE Tail(@)]
      BY <2>1, <3>1 DEF CompletePop
    <3>3. heap \in [Queues -> Seq(Requests)]
      BY <1>0 DEF Types
    <3>4. heap[q] # <<>> => Tail(heap[q]) \in Seq(Requests)
      BY <3>3
    <3> QED BY <3>1, <3>2, <3>3
  <2>2. CASE heap' = heap
    BY <1>0, <2>2 DEF Types
  <2> QED BY <2>1, <2>2 DEF DeletePendingRequest, SignalReady
<1>6. /\ pending' \in [Clients -> Requests \union {NoReq}]
      /\ \A c \in Clients : c # d => pending'[c] = pending[c]
  <2>1. CASE pending' = [pending EXCEPT ![d] = IF @ = frame[t].r THEN NoReq ELSE @]
    BY <1>0, <2>1 DEF Types
  <2>2. CASE pending' = pending
    BY <1>0, <2>2 DEF Types
  <2> QED BY <1>3, <2>1, <2>2 DEF CompletePop, DeletePendingRequest, SignalReady
<1>7. readyForDispatch' \in {readyForDispatch, <<d>>}
  BY <1>3 DEF CompletePop, DeletePendingRequest, SignalReady, channels
<1> HIDE DEF t
<1>8. Types'
  BY <1>0, <1>1, <1>4, <1>5, <1>6, <1>7 DEF Types, Slot
<1>9. PumpInv'
  BY <1>0, <1>1, <1>2, <1>4, PumpFrame, ThreadFacts
<1>10. LockInv'
  BY <1>0, <1>1, <1>2, <1>3, <1>4, LockFrame, ThreadFacts DEF Holds
<1>11. StationInv'
  BY <1>0, <1>1, <1>2, <1>3, <1>4, StationFrame
<1>12. ASSUME NEW c \in Clients, First(c)
       PROVE  ClientInv(c)'
  <2>1. c # d /\ ClientInv(c) /\ KeepsThreads(c)
    BY <1>0, <1>1, <1>2, <1>3, <1>4, <1>12, ThreadsKept
  <2>2. KeepsData(c)
    BY <1>1, <1>5, <1>6, <2>1 DEF KeepsData
  <2>3. pc'[Pump] = pc[Pump]
    BY <1>2, <1>4, ThreadFacts
  <2>4. KeepsPump(c)
    BY <1>1, <1>7, <2>1, <2>3 DEF KeepsPump, Checking, Adding, Writing, Served
  <2> QED BY <1>1, <2>1, <2>2, <2>4, ClientFrame
<1> QED BY <1>1, <1>8, <1>9, <1>10, <1>11, <1>12 DEF CalmInv, First

=============================================================================
