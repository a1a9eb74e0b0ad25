------------------------- MODULE OcppjServerProofs --------------------------
(***************************************************************************)
(* Proofs about OcppjServer, for any stations and requests, any capacity   *)
(* of requestChannel and any use of the server.  The read goroutine of a   *)
(* connection keeps the invariant of OcppjServerSteps, and with what is    *)
(* shown there and of the pump in OcppjServerPumpSteps so does every step. *)
(***************************************************************************)
EXTENDS OcppjServerPumpSteps

(* The provers have more than their default time for the leaves below.     *)
USE SMTT(20), ZenonT(20)

(* The read goroutine of a connection.                                     *)

LEMMA ReadCompletePeekStep ==
  ASSUME Base, CalmInv, NEW d \in Clients, CompletePeek(read(d))
  PROVE  CalmInv'
<1>0. /\ Types /\ PumpInv /\ StationInv /\ LockInv
      /\ \A c \in Clients : First(c) => ClientInv(c)
  BY DEF CalmInv
<1>1. /\ pc[read(d)] = "complete"
      /\ use' = use /\ running' = running /\ queueMap' = queueMap /\ heap' = heap
      /\ pending' = pending /\ requestChannel' = requestChannel /\ timerC' = timerC
      /\ readyForDispatch' = readyForDispatch /\ ctx' = ctx /\ pump' = pump
      /\ cbLock' = cbLock /\ callbacks' = callbacks
      /\ connected' = connected /\ connects' = connects /\ wire' = wire
      /\ answered' = answered /\ outcome' = outcome /\ Target' = Target
  BY DEF CompletePeek, channels, contexts, network, locks, Target
<1>2. use \in Uses /\ DOMAIN Target \subseteq Requests /\ frame[read(d)].c = d
  BY <1>0, <1>1, TargetFacts DEF Base, StationInv, Completing
<1>3. /\ pc' = [u \in Threads |-> pc'[u]] /\ pc'[read(d)] \in {"pop", frame[read(d)].then}
      /\ \A u \in Threads : u # read(d) => pc'[u] = pc[u] /\ frame'[u] = frame[u]
      /\ frame' \in [Threads -> Frames] /\ frame'[read(d)].c = d
      /\ frame'[read(d)].r = frame[read(d)].r
      /\ frame'[read(d)].then = frame[read(d)].then
      /\ pc'[read(d)] = "pop" => /\ frame'[read(d)].q \in Queues
                                 /\ frame'[read(d)].q = queueMap[d]
                                 /\ frame'[read(d)].q[1] = d
      /\ \/ pc'[read(d)] = "pop"
         \/ /\ pc'[read(d)] = frame[read(d)].then
            /\ \/ queueMap[d] = NoQueue
               \/ heap[queueMap[d]] = <<>>
               \/ heap[queueMap[d]][1] # frame[read(d)].r
  BY <1>0, <1>2, PeekFacts, ThreadFacts
<1>4. Types' /\ PumpInv'
  BY <1>0, <1>1, <1>3, PumpFrame, ThreadFacts DEF Types
<1>5. StationInv'
  BY <1>0, <1>1, <1>2, <1>3, StationFrame, ThreadFacts
<1>6. LockInv'
  BY <1>0, <1>1, <1>2, <1>3, LockFrame, ThreadFacts DEF Holds
<1>7. ASSUME NEW c \in Clients, First(c)
      PROVE  ClientInv(c)'
  <2>1. ClientInv(c) /\ KeepsPump(c) /\ KeepsData(c)
    BY <1>0, <1>1, <1>3, <1>7, PumpKept, ThreadFacts DEF KeepsData
  <2>2. CASE c # d
    <3>1. KeepsThreads(c)
      BY <1>2, <1>3, <2>2, ThreadsKept, ThreadFacts
    <3> QED BY <1>1, <2>1, <3>1, ClientFrame
  <2>3. CASE c = d
    <3>1. ControlInv(d) /\ AnswerInv(d) /\ KeepsPump(d)
      BY <2>1, <2>3 DEF ClientInv
    <3>2. /\ pc'[open(d)] = pc[open(d)] /\ pc'[close(d)] = pc[close(d)]
          /\ \A r \in DOMAIN Target : pc'[send(r)] = pc[send(r)] /\ frame'[send(r)] = frame[send(r)]
      BY <1>2, <1>3, ThreadFacts
    <3>3. frame[read(d)].then = "answer" /\ pc'[read(d)] \in {"pop", "answer"}
      BY <1>1, <1>3, <3>1 DEF ControlInv
    <3>4. ControlInv(d)'
      <4>1. pc'[read(d)] = "pop" => frame'[read(d)].q = <<d, 1>>
        BY <1>3, <3>1, QueueFacts DEF ControlInv
      <4>2. d \in connected
        BY <1>1, <3>1 DEF ControlInv
      <4> QED BY <1>1, <1>3, <3>1, <3>2, <4>1 DEF ControlInv, Completing
    <3>5. AnswerInv(d)'
      <4>1. pending[d] \in answered /\ callbacks[d] # <<>> /\ callbacks[d][1] = frame[read(d)].r
        BY <1>1, <3>1 DEF AnswerInv, Completing
      <4> QED BY <1>1, <1>3, <3>1, <4>1 DEF AnswerInv
    <3>6. ASSUME Served'
          PROVE  FlightInv(d)' /\ QueueInv(d)' /\ OrderInv(d)'
      <4>1. FlightInv(d) /\ QueueInv(d) /\ OrderInv(d)
        BY <2>1, <2>3, <3>6 DEF ClientInv, KeepsPump
      <4>2. /\ ctx[d] = "armed" /\ queueMap[d] # NoQueue /\ frame[read(d)].r = pending[d]
            /\ queueMap[d] = <<d, 1>>
        BY <1>1, <3>1, <4>1 DEF FlightInv, ControlInv
      <4>3. pending[d] # NoReq
        <5>1. callbacks[d] # <<>> /\ callbacks[d][1] = frame[read(d)].r
          BY <1>1, <3>1 DEF AnswerInv, Completing
        <5>2. callbacks[d] \in Seq(Requests)
          BY <1>0 DEF Types
        <5>3. callbacks[d][1] \in Requests
          BY <5>1, <5>2
        <5> QED BY <4>2, <5>1, <5>3, OcppjServerAssumption
      <4>4. Queue(d) # <<>> /\ Queue(d)[1] = pending[d] /\ Queue(d) = heap[queueMap[d]]
        BY <1>1, <4>1, <4>2, <4>3 DEF FlightInv, Queue
      <4>5. pc'[read(d)] = "pop"
        BY <1>3, <4>2, <4>4
      <4>6. QueueInv(d)'
        BY <1>1, <3>2, <4>1, QueueFrame
      <4>7. Brought(d)' = Brought(d)
        BY <1>1, <4>5 DEF Brought
      <4>8. OrderInv(d)'
        BY <1>1, <3>2, <4>1, <4>7, OrderFrame
      <4>9. FlightInv(d)'
        <5>1. Queue(d)' = Queue(d)
          BY <1>1 DEF Queue
        <5> QED BY <1>1, <1>3, <3>1, <4>1, <4>5, <5>1, ThreadFacts DEF FlightInv, KeepsPump,
                   Completing
      <4> QED BY <4>6, <4>8, <4>9
    <3> QED BY <2>3, <3>4, <3>5, <3>6 DEF ClientInv
  <2> QED BY <2>2, <2>3
<1> QED BY <1>1, <1>4, <1>5, <1>6, <1>7 DEF CalmInv, First

LEMMA ReadCompletePopStep ==
  ASSUME Base, CalmInv, NEW d \in Clients, CompletePop(read(d))
  PROVE  CalmInv'
<1>0. /\ Types /\ PumpInv /\ StationInv /\ LockInv
      /\ \A c \in Clients : First(c) => ClientInv(c)
  BY DEF CalmInv
<1>1. /\ pc[read(d)] = "pop" /\ Goto(read(d), "delete")
      /\ heap' = [heap EXCEPT ![frame[read(d)].q] = IF @ = <<>> THEN @ ELSE Tail(@)]
      /\ use' = use /\ running' = running /\ queueMap' = queueMap
      /\ pending' = pending /\ requestChannel' = requestChannel /\ timerC' = timerC
      /\ readyForDispatch' = readyForDispatch /\ ctx' = ctx /\ pump' = pump
      /\ frame' = frame /\ cbLock' = cbLock /\ callbacks' = callbacks
      /\ connected' = connected /\ connects' = connects /\ wire' = wire
      /\ answered' = answered /\ outcome' = outcome /\ Target' = Target
  BY DEF CompletePop, channels, contexts, network, locks, Target
<1>2. use \in Uses /\ DOMAIN Target \subseteq Requests /\ frame[read(d)].c = d
  BY <1>0, <1>1, TargetFacts DEF Base, StationInv, Completing
<1>3. /\ pc' = [u \in Threads |-> pc'[u]] /\ pc'[read(d)] = "delete"
      /\ \A u \in Threads : u # read(d) => pc'[u] = pc[u]
  BY <1>0, <1>1, GotoFacts, ThreadFacts DEF Types
<1>4. PICK q \in Queues : q = frame[read(d)].q /\ q[1] = d
  BY <1>0, <1>1, <1>2, ThreadFacts DEF StationInv
<1>5. /\ heap' \in [Queues -> Seq(Requests)] /\ heap[q] \in Seq(Requests)
      /\ heap[q] # <<>> => heap'[q] = Tail(heap[q])
      /\ \A p \in Queues : p # q => heap'[p] = heap[p]
  <2>1. heap \in [Queues -> Seq(Requests)]
    BY <1>0 DEF Types
  <2>2. heap[q] # <<>> => Tail(heap[q]) \in Seq(Requests)
    BY <2>1
  <2>3. heap' = [heap EXCEPT ![q] = IF @ = <<>> THEN @ ELSE Tail(@)]
    BY <1>1, <1>4
  <2> QED BY <2>1, <2>3
<1>6. Types' /\ PumpInv'
  BY <1>0, <1>1, <1>3, <1>5, PumpFrame, ThreadFacts DEF Types
<1>7. StationInv'
  BY <1>0, <1>1, <1>2, <1>3, StationFrame, ThreadFacts
<1>8. LockInv'
  BY <1>0, <1>1, <1>2, <1>3, LockFrame, ThreadFacts DEF Holds
<1>9. ASSUME NEW c \in Clients, First(c)
      PROVE  ClientInv(c)'
  <2>1. ClientInv(c) /\ KeepsPump(c)
    BY <1>0, <1>1, <1>3, <1>9, PumpKept, ThreadFacts
  <2>2. CASE c # d
    <3>1. KeepsThreads(c)
      BY <1>1, <1>2, <1>3, <2>2, ThreadsKept, ThreadFacts
    <3>2. KeepsData(c)
      BY <1>1, <1>4, <2>2 DEF KeepsData
    <3> QED BY <1>1, <2>1, <3>1, <3>2, ClientFrame
  <2>3. CASE c = d
    <3>1. ControlInv(d) /\ AnswerInv(d) /\ KeepsPump(d)
      BY <2>1, <2>3 DEF ClientInv
    <3>2. /\ pc'[open(d)] = pc[open(d)] /\ pc'[close(d)] = pc[close(d)]
          /\ \A r \in DOMAIN Target : pc'[send(r)] = pc[send(r)]
          /\ Brought(d) = 0 /\ Brought(d)' = 1
      BY <1>1, <1>2, <1>3, ThreadFacts DEF Brought
    <3>3. ControlInv(d)'
      BY <1>1, <1>3, <3>1, <3>2 DEF ControlInv, Completing
    <3>4. pending[d] \in answered /\ callbacks[d] # <<>> /\ callbacks[d][1] = frame[read(d)].r
      BY <1>1, <3>1 DEF AnswerInv, Completing
    <3>5. AnswerInv(d)'
      BY <1>1, <3>1, <3>4 DEF AnswerInv
    <3>6. ASSUME Served'
          PROVE  FlightInv(d)' /\ QueueInv(d)' /\ OrderInv(d)'
      <4>1. FlightInv(d) /\ QueueInv(d) /\ OrderInv(d)
        BY <2>1, <2>3, <3>6 DEF ClientInv, KeepsPump
      <4>2. q = <<d, 1>> /\ Queue(d) = heap[q] /\ Queue(d)' = heap'[q]
        BY <1>1, <1>4, <3>1 DEF ControlInv, Queue
      <4>3. ctx[d] = "armed" /\ frame[read(d)].r = pending[d] /\ readyForDispatch # <<d>>
              /\ ~Checking(d) /\ ~Adding(d) /\ ~Writing(d)
        BY <1>1, <4>1 DEF FlightInv, Completing
      <4>4. pending[d] # NoReq
        <5>1. callbacks[d] \in Seq(Requests)
          BY <1>0 DEF Types
        <5>2. callbacks[d][1] \in Requests
          BY <3>4, <5>1
        <5> QED BY <3>4, <4>3, <5>2, OcppjServerAssumption
      <4>5. heap[q] # <<>> /\ pending[d] = heap[q][1]
        BY <1>1, <4>1, <4>2, <4>4 DEF FlightInv
      <4>6. /\ heap'[q] = Tail(heap[q]) /\ heap'[q] \in Seq(Requests)
            /\ Len(heap[q]) \in Nat /\ Len(heap[q]) > 0
            /\ Len(heap'[q]) = Len(heap[q]) - 1
            /\ \A k \in 1..Len(heap'[q]) : /\ k + 1 \in 1..Len(heap[q]) /\ k + 1 # 1
                                           /\ heap'[q][k] = heap[q][k + 1]
            /\ Range(heap'[q]) \subseteq Range(heap[q])
        BY <1>5, <4>5, TailFacts, ZenonT(20), ThreadFacts
      <4>7. \A i, j \in 1..Len(heap[q]) : heap[q][i] = heap[q][j] => i = j
        BY <4>1, <4>2, ThreadFacts DEF QueueInv
      <4>8. pending[d] \notin Range(heap'[q])
        <5>1. \A k \in 1..Len(heap'[q]) : heap'[q][k] # pending[d]
          <6>1. 1 \in 1..Len(heap[q])
            BY <4>6
          <6>2. \A k \in 1..Len(heap'[q]) : /\ k + 1 \in 1..Len(heap[q]) /\ k + 1 # 1
                                             /\ heap'[q][k] = heap[q][k + 1]
            BY <4>6
          <6>3. pending[d] = heap[q][1]
            BY <4>5
          <6> QED BY <4>7, <6>1, <6>2, <6>3
        <5>2. heap'[q] \in Seq(Requests)
          BY <4>6
        <5>3. \A x \in Range(heap'[q]) : \E k \in 1..Len(heap'[q]) : heap'[q][k] = x
          BY <5>2, RangeFacts
        <5> QED BY <5>1, <5>3
      <4>9. FlightInv(d)'
        BY <1>1, <1>3, <3>1, <3>4, <4>1, <4>2, <4>8 DEF FlightInv, KeepsPump, Completing
      <4>10. QueueInv(d)'
        <5>1. \A i, j \in 1..Len(heap'[q]) : heap'[q][i] = heap'[q][j] => i = j
          <6>1. SUFFICES ASSUME NEW i \in 1..Len(heap'[q]), NEW j \in 1..Len(heap'[q]),
                                heap'[q][i] = heap'[q][j]
                         PROVE  i = j
            OBVIOUS
          <6>2. i + 1 = j + 1
            BY <4>6, <4>7, <6>1
          <6> QED BY <6>2
        <5>2. \A i \in 1..Len(heap'[q]) : heap'[q][i] \notin Range(wire[d])
          <6>1. \A k \in 1..Len(heap[q]) : heap[q][k] \in Range(wire[d]) => k = 1
            BY <4>1, <4>2 DEF QueueInv
          <6> QED BY <4>6, <6>1
        <5>3. \A r \in DOMAIN Target : Target[r] = d /\ pc'[send(r)] \in {"idle", "try", "push"} =>
                r \notin Range(heap'[q]) \union Range(wire[d])
          BY <3>2, <4>1, <4>2, <4>6, ZenonT(20) DEF QueueInv
        <5>4. \A i \in 1..Len(wire[d]) : wire[d][i] \in answered \/ wire[d][i] = pending[d]
          BY <4>1 DEF QueueInv
        <5> QED BY <1>1, <4>2, <5>1, <5>2, <5>3, <5>4, ZenonT(20) DEF QueueInv
      <4>11. OrderInv(d)'
        <5>1. \A i \in 1..Len(heap'[q]) : callbacks[d][1 + i] = heap'[q][i]
          <6>1. \A i \in 1..Len(heap[q]) : callbacks[d][i] = heap[q][i]
            <7>1. \A i \in 1..Len(heap[q]) : callbacks[d][Brought(d) + i] = heap[q][i]
              BY <4>1, <4>2 DEF OrderInv
            <7>2. \A i \in 1..Len(heap[q]) : Brought(d) + i = i
              BY <3>2
            <7> QED BY <7>1, <7>2
          <6>2. \A i \in 1..Len(heap'[q]) : 1 + i = i + 1
            OBVIOUS
          <6> QED BY <4>6, <6>1
        <5>2. 1 + Len(heap'[q]) = 0 + Len(heap[q])
          BY <4>6
        <5>3. \A r \in DOMAIN Target : Target[r] = d /\ pc'[send(r)] = "push" =>
                /\ Len(callbacks[d]) = 1 + Len(heap'[q]) + 1
                /\ callbacks[d][1 + Len(heap'[q]) + 1] = r
          BY <3>2, <4>1, <4>2, <5>2 DEF OrderInv
        <5>4. \/ Len(callbacks[d]) = 1 + Len(heap'[q])
              \/ \E r \in DOMAIN Target : Target[r] = d /\ pc'[send(r)] = "push"
          BY <3>2, <4>1, <4>2, <5>2 DEF OrderInv
        <5>5. callbacks' = callbacks /\ Target' = Target
          BY <1>1
        <5>6. \A i \in 1..Len(Queue(d)') : callbacks'[d][Brought(d)' + i] = Queue(d)'[i]
          BY <3>2, <4>2, <5>1, <5>5
        <5>7. \A r \in DOMAIN Target' : Target'[r] = d /\ pc'[send(r)] = "push" =>
                /\ Len(callbacks'[d]) = Brought(d)' + Len(Queue(d)') + 1
                /\ callbacks'[d][Brought(d)' + Len(Queue(d)') + 1] = r
          BY <3>2, <4>2, <5>3, <5>5
        <5>8. \/ Len(callbacks'[d]) = Brought(d)' + Len(Queue(d)')
              \/ \E r \in DOMAIN Target' : Target'[r] = d /\ pc'[send(r)] = "push"
          BY <3>2, <4>2, <5>4, <5>5
        <5> QED BY <5>6, <5>7, <5>8 DEF OrderInv
      <4> QED BY <4>9, <4>10, <4>11
    <3> QED BY <2>3, <3>3, <3>5, <3>6 DEF ClientInv
  <2> QED BY <2>2, <2>3
<1> QED BY <1>1, <1>6, <1>7, <1>8, <1>9 DEF CalmInv, First

LEMMA ReadDeleteStep ==
  ASSUME Base, CalmInv, NEW d \in Clients, DeletePendingRequest(read(d))
  PROVE  CalmInv'
<1>0. /\ Types /\ PumpInv /\ StationInv /\ LockInv
      /\ \A c \in Clients : First(c) => ClientInv(c)
  BY DEF CalmInv
<1>1. use \in Uses /\ DOMAIN Target \subseteq Requests /\ frame[read(d)].c = d
  BY <1>0, TargetFacts DEF Base, StationInv, Completing, DeletePendingRequest
<1>2. /\ pc[read(d)] = "delete" /\ Goto(read(d), "ready")
      /\ pending' = [pending EXCEPT ![d] = IF @ = frame[read(d)].r THEN NoReq ELSE @]
      /\ use' = use /\ running' = running /\ queueMap' = queueMap /\ heap' = heap
      /\ requestChannel' = requestChannel /\ timerC' = timerC
      /\ readyForDispatch' = readyForDispatch /\ ctx' = ctx /\ pump' = pump
      /\ frame' = frame /\ cbLock' = cbLock /\ callbacks' = callbacks
      /\ connected' = connected /\ connects' = connects /\ wire' = wire
      /\ answered' = answered /\ outcome' = outcome /\ Target' = Target
  BY <1>1 DEF DeletePendingRequest, channels, contexts, network, locks, Target
<1>3. /\ pc' = [u \in Threads |-> pc'[u]] /\ pc'[read(d)] = "ready"
      /\ \A u \in Threads : u # read(d) => pc'[u] = pc[u]
  BY <1>0, <1>2, GotoFacts, ThreadFacts DEF Types
<1>4. /\ pending' \in [Clients -> Requests \union {NoReq}]
      /\ pending'[d] = IF pending[d] = frame[read(d)].r THEN NoReq ELSE pending[d]
      /\ \A c \in Clients : c # d => pending'[c] = pending[c]
  BY <1>0, <1>2 DEF Types
<1>5. Types' /\ PumpInv'
  BY <1>0, <1>2, <1>3, PumpFrame, ThreadFacts DEF Types
<1>6. StationInv'
  BY <1>0, <1>1, <1>2, <1>3, StationFrame, ThreadFacts
<1>7. LockInv'
  BY <1>0, <1>1, <1>2, <1>3, LockFrame, ThreadFacts DEF Holds
<1>8. ASSUME NEW c \in Clients, First(c)
      PROVE  ClientInv(c)'
  <2>1. ClientInv(c) /\ KeepsPump(c)
    BY <1>0, <1>2, <1>3, <1>8, PumpKept, ThreadFacts
  <2>2. CASE c # d
    <3>1. KeepsThreads(c)
      BY <1>1, <1>2, <1>3, <2>2, ThreadsKept, ThreadFacts
    <3>2. KeepsData(c)
      BY <1>2, <2>2 DEF KeepsData
    <3> QED BY <1>2, <2>1, <3>1, <3>2, ClientFrame
  <2>3. CASE c = d
    <3>1. ControlInv(d) /\ AnswerInv(d) /\ KeepsPump(d)
      BY <2>1, <2>3 DEF ClientInv
    <3>2. /\ pc'[open(d)] = pc[open(d)] /\ pc'[close(d)] = pc[close(d)]
          /\ \A r \in DOMAIN Target : pc'[send(r)] = pc[send(r)]
          /\ Brought(d) = 1 /\ Brought(d)' = 1
      BY <1>1, <1>2, <1>3, ThreadFacts DEF Brought
    <3>3. ControlInv(d)'
      BY <1>2, <1>3, <3>1, <3>2 DEF ControlInv, Completing
    <3>4. AnswerInv(d)'
      <4>1. callbacks[d] # <<>> /\ callbacks[d][1] = frame[read(d)].r
        BY <1>2, <3>1 DEF AnswerInv, Completing
      <4> QED BY <1>2, <1>3, <3>1, <3>2, <4>1 DEF AnswerInv
    <3>5. ASSUME Served'
          PROVE  FlightInv(d)' /\ QueueInv(d)' /\ OrderInv(d)'
      <4>1. FlightInv(d) /\ QueueInv(d) /\ OrderInv(d)
        BY <2>1, <2>3, <3>5 DEF ClientInv, KeepsPump
      <4>2. /\ ctx[d] = "armed" /\ pending'[d] = NoReq /\ readyForDispatch # <<d>>
            /\ pending[d] \in answered /\ pending[d] \notin Range(Queue(d))
            /\ ~Checking(d) /\ ~Adding(d) /\ ~Writing(d)
        BY <1>2, <1>4, <4>1 DEF FlightInv, Completing
      <4>3. Queue(d)' = Queue(d) /\ Queue(d) \in Seq(Requests)
        BY <1>0, <1>2, QueueFacts DEF Queue, Types
      <4>4. FlightInv(d)'
        BY <1>2, <1>3, <3>1, <4>1, <4>2 DEF FlightInv, KeepsPump
      <4>5. QueueInv(d)'
        <5>1. \A i \in 1..Len(Queue(d)) : Queue(d)[i] \in Range(Queue(d))
          BY <4>3, RangeFacts
        <5>2. \A i \in 1..Len(Queue(d)) : Queue(d)[i] \notin Range(wire[d])
          BY <4>1, <4>2, <5>1 DEF QueueInv
        <5>3. \A i \in 1..Len(wire[d]) : wire[d][i] \in answered
          BY <4>1, <4>2 DEF QueueInv
        <5>4. \A r \in DOMAIN Target : Target[r] = d /\ pc'[send(r)] \in {"idle", "try", "push"} =>
                r \notin Range(Queue(d)) \union Range(wire[d])
          BY <3>2, <4>1 DEF QueueInv
        <5>5. \A i, j \in 1..Len(Queue(d)) : Queue(d)[i] = Queue(d)[j] => i = j
          BY <4>1 DEF QueueInv
        <5> QED BY <1>2, <4>3, <5>2, <5>3, <5>4, <5>5 DEF QueueInv
      <4>6. OrderInv(d)'
        BY <1>2, <3>2, <4>1, OrderFrame
      <4> QED BY <4>4, <4>5, <4>6
    <3> QED BY <2>3, <3>3, <3>4, <3>5 DEF ClientInv
  <2> QED BY <2>2, <2>3
<1> QED BY <1>2, <1>5, <1>6, <1>7, <1>8 DEF CalmInv, First

LEMMA ReadSignalStep ==
  ASSUME Base, CalmInv, NEW d \in Clients, SignalReady(read(d))
  PROVE  CalmInv'
<1>0. /\ Types /\ PumpInv /\ StationInv /\ LockInv
      /\ \A c \in Clients : First(c) => ClientInv(c)
  BY DEF CalmInv
<1>1. use \in Uses /\ DOMAIN Target \subseteq Requests /\ frame[read(d)].c = d
  BY <1>0, TargetFacts DEF Base, StationInv, Completing, SignalReady
<1>2. /\ pc[read(d)] = "ready" /\ Goto(read(d), frame[read(d)].then)
      /\ readyForDispatch' = <<d>>
      /\ use' = use /\ running' = running /\ queueMap' = queueMap /\ heap' = heap
      /\ pending' = pending /\ requestChannel' = requestChannel /\ timerC' = timerC
      /\ ctx' = ctx /\ pump' = pump
      /\ frame' = frame /\ cbLock' = cbLock /\ callbacks' = callbacks
      /\ connected' = connected /\ connects' = connects /\ wire' = wire
      /\ answered' = answered /\ outcome' = outcome /\ Target' = Target
  BY <1>1 DEF SignalReady, contexts, network, locks, Target
<1>3. /\ pc' = [u \in Threads |-> pc'[u]] /\ pc'[read(d)] = frame[read(d)].then
      /\ \A u \in Threads : u # read(d) => pc'[u] = pc[u]
  BY <1>0, <1>2, GotoFacts, ThreadFacts DEF Types
<1>4. pc'[read(d)] # "pop"
  BY <1>0, <1>3, ZenonT(20), ThreadFacts DEF Types, Frames
<1>5. Types'
  BY <1>0, <1>2, <1>3 DEF Types, Slot
<1>6. PumpInv'
  BY <1>0, <1>2, <1>3, PumpFrame, ThreadFacts
<1>7. StationInv'
  BY <1>0, <1>1, <1>2, <1>3, <1>4, StationFrame, ThreadFacts
<1>8. LockInv'
  BY <1>0, <1>1, <1>2, <1>3, LockFrame, ThreadFacts DEF Holds
<1>9. ASSUME NEW c \in Clients, First(c)
      PROVE  ClientInv(c)'
  <2>1. ClientInv(c) /\ KeepsData(c)
    BY <1>0, <1>2, <1>9 DEF KeepsData
  <2>2. CASE c # d
    <3>1. KeepsThreads(c)
      BY <1>1, <1>2, <1>3, <2>2, ThreadsKept, ThreadFacts
    <3>2. KeepsPump(c)
      BY <1>2, <1>3, <2>2, ThreadFacts DEF KeepsPump, Checking, Adding, Writing, Served
    <3> QED BY <1>2, <2>1, <3>1, <3>2, ClientFrame
  <2>3. CASE c = d
    <3>1. ControlInv(d) /\ AnswerInv(d)
      BY <2>1, <2>3 DEF ClientInv
    <3>2. /\ pc'[open(d)] = pc[open(d)] /\ pc'[close(d)] = pc[close(d)]
          /\ pc'[Pump] = pc[Pump] /\ pc'[read(d)] = "answer"
          /\ \A r \in DOMAIN Target : pc'[send(r)] = pc[send(r)]
      BY <1>1, <1>2, <1>3, <3>1, ThreadFacts DEF ControlInv
    <3>3. Brought(d) = 1 /\ Brought(d)' = 1
      BY <1>2, <3>2 DEF Brought
    <3>4. ControlInv(d)'
      BY <1>2, <3>1, <3>2 DEF ControlInv
    <3>5. AnswerInv(d)'
      <4>1. callbacks[d] # <<>> /\ callbacks[d][1] = frame[read(d)].r
        BY <1>2, <3>1 DEF AnswerInv, Completing
      <4> QED BY <1>2, <3>1, <3>2, <3>3, <4>1 DEF AnswerInv
    <3>6. ASSUME Served'
          PROVE  FlightInv(d)' /\ QueueInv(d)' /\ OrderInv(d)'
      <4>1. FlightInv(d) /\ QueueInv(d) /\ OrderInv(d)
        BY <2>1, <2>3, <3>2, <3>6 DEF ClientInv, Served
      <4>2. FlightInv(d)'
        <5>1. /\ Queue(d)' = Queue(d) /\ (Checking(d)' <=> Checking(d))
              /\ (Adding(d)' <=> Adding(d)) /\ (Writing(d)' <=> Writing(d))
          BY <1>2, <3>2 DEF Queue, Checking, Adding, Writing
        <5>2. ctx[d] = "armed" /\ pending[d] = NoReq
          BY <1>2, <4>1 DEF FlightInv, Completing
        <5> QED BY <1>2, <3>2, <4>1, <5>1 DEF FlightInv, Completing
      <4>3. QueueInv(d)'
        BY <1>2, <3>2, <4>1, QueueFrame
      <4>4. OrderInv(d)'
        BY <1>2, <3>2, <3>3, <4>1, OrderFrame
      <4> QED BY <4>2, <4>3, <4>4
    <3> QED BY <2>3, <3>4, <3>5, <3>6 DEF ClientInv
  <2> QED BY <2>2, <2>3
<1> QED BY <1>2, <1>5, <1>6, <1>7, <1>8, <1>9 DEF CalmInv, First

LEMMA ReceiveAnswerStep ==
  ASSUME Base, CalmInv, NEW r \in DOMAIN Target, ReceiveAnswer(Target[r], r)
  PROVE  CalmInv'
<1>0. /\ Types /\ PumpInv /\ StationInv /\ LockInv
      /\ \A c \in Clients : First(c) => ClientInv(c)
  BY DEF CalmInv
<1>1. PICK d \in Clients :
        d = Target[r] /\ use \in Uses /\ r \in Requests /\ DOMAIN Target \subseteq Requests
  BY TargetFacts DEF Base
<1>2. /\ pc[read(d)] = "reading" /\ (r \in Range(wire[d]) \ answered \/ WrittenTwice(d, r))
      /\ answered' = answered \union {r}
      /\ use' = use /\ running' = running /\ queueMap' = queueMap /\ heap' = heap
      /\ pending' = pending /\ requestChannel' = requestChannel /\ timerC' = timerC
      /\ readyForDispatch' = readyForDispatch /\ ctx' = ctx /\ pump' = pump
      /\ cbLock' = cbLock /\ callbacks' = callbacks
      /\ connected' = connected /\ connects' = connects /\ wire' = wire
      /\ outcome' = outcome /\ Target' = Target
  BY <1>1 DEF ReceiveAnswer, channels, contexts, locks, Target
<1>3. CASE pending[d] = r
  <2>1. /\ frame' = [frame EXCEPT ![read(d)] =
                       [c |-> d, r |-> r, q |-> NoQueue, then |-> "answer"]]
        /\ Goto(read(d), "complete")
    BY <1>1, <1>3 DEF ReceiveAnswer, CallComplete
  <2>2. /\ pc' = [u \in Threads |-> pc'[u]] /\ pc'[read(d)] = "complete"
        /\ \A u \in Threads : u # read(d) => pc'[u] = pc[u]
    BY <1>0, <2>1, GotoFacts, ThreadFacts DEF Types
  <2>3. /\ frame' \in [Threads -> Frames]
        /\ frame'[read(d)] = [c |-> d, r |-> r, q |-> NoQueue, then |-> "answer"]
        /\ \A u \in Threads : u # read(d) => frame'[u] = frame[u]
    <3>1. [c |-> d, r |-> r, q |-> NoQueue, then |-> "answer"] \in Frames
      BY <1>1 DEF Frames
    <3>2. frame \in [Threads -> Frames]
      BY <1>0 DEF Types
    <3> QED BY <2>1, <3>1, <3>2, ThreadFacts
  <2>4. Types'
    BY <1>0, <1>1, <1>2, <2>2, <2>3 DEF Types
  <2>5. PumpInv'
    BY <1>0, <1>2, <2>2, <2>3, PumpFrame, ThreadFacts
  <2>6. StationInv'
    BY <1>0, <1>1, <1>2, <2>2, <2>3, StationFrame, ThreadFacts
  <2>7. LockInv'
    BY <1>0, <1>1, <1>2, <2>2, LockFrame, ThreadFacts DEF Holds
  <2>8. ASSUME NEW c \in Clients, First(c)
        PROVE  ClientInv(c)'
    <3>1. ClientInv(c) /\ KeepsPump(c) /\ KeepsData(c)
      BY <1>0, <1>2, <2>2, <2>3, <2>8, PumpKept, ThreadFacts DEF KeepsData
    <3>2. CASE c # d
      <4>1. KeepsThreads(c)
        BY <1>1, <2>2, <2>3, <3>2, ThreadsKept, ThreadFacts
      <4> QED BY <1>2, <3>1, <4>1, ClientFrame
    <3>3. CASE c = d
      <4>1. ControlInv(d) /\ AnswerInv(d) /\ KeepsPump(d)
        BY <3>1, <3>3 DEF ClientInv
      <4>2. /\ pc'[open(d)] = pc[open(d)] /\ pc'[close(d)] = pc[close(d)]
            /\ \A s \in DOMAIN Target : pc'[send(s)] = pc[send(s)] /\ frame'[send(s)] = frame[send(s)]
            /\ Brought(d) = 0 /\ Brought(d)' = 0
        BY <1>1, <1>2, <2>2, <2>3, ThreadFacts DEF Brought
      <4>3. ControlInv(d)'
        <5>1. d \in connected
          BY <1>2, <4>1 DEF ControlInv
        <5>2. frame'[read(d)].then = "answer"
          BY <2>3
        <5> QED BY <1>2, <2>2, <4>1, <4>2, <5>2 DEF ControlInv, Completing
      <4>4. pending[d] # NoReq
        BY <1>1, <1>3, OcppjServerAssumption
      <4>w. r \in Range(wire[d]) /\ r \notin answered
        <5>1. DOMAIN wire[d] = 1..Len(wire[d])
          BY <1>0 DEF Types
        <5>2. \A i, j \in 1..Len(wire[d]) : wire[d][i] = wire[d][j] => i = j
          BY <4>1 DEF AnswerInv
        <5>3. ~WrittenTwice(d, r)
          BY <5>1, <5>2 DEF WrittenTwice
        <5> QED BY <1>2, <5>3
      <4>5. AnswerInv(d)'
        <5>1. Len(callbacks[d]) >= 1 /\ callbacks[d][1] = r
          BY <1>3, <4>1, <4>2, <4>4, <4>w DEF AnswerInv
        <5>2. callbacks[d] # <<>>
          BY <5>1
        <5>3. frame'[read(d)].r = r
          BY <2>3
        <5>4. \A i \in 1..(Len(wire[d]) - 1) : wire[d][i] \in answered'
          BY <1>2, <4>1 DEF AnswerInv
        <5> QED BY <1>2, <1>3, <4>1, <5>1, <5>3 DEF AnswerInv
      <4>6. ASSUME Served'
            PROVE  FlightInv(d)' /\ QueueInv(d)' /\ OrderInv(d)'
        <5>1. FlightInv(d) /\ QueueInv(d) /\ OrderInv(d)
          BY <3>1, <3>3, <4>6 DEF ClientInv, KeepsPump
        <5>2. QueueInv(d)'
          BY <1>2, <4>2, <5>1, QueueFrame
        <5>3. OrderInv(d)'
          BY <1>2, <4>2, <5>1, OrderFrame
        <5>4. FlightInv(d)'
          <6>1. ~Writing(d) /\ ctx[d] = "armed" /\ readyForDispatch # <<d>>
            BY <1>2, <1>3, <4>4, <4>w, <5>1 DEF FlightInv
          <6>2. Queue(d)' = Queue(d) /\ frame'[read(d)].r = r
            <7>1. Queue(d)' = Queue(d)
              BY <1>2 DEF Queue
            <7> QED BY <2>3, <7>1
          <6>3. Queue(d) # <<>> /\ pending[d] = Queue(d)[1]
            BY <1>2, <4>4, <5>1 DEF FlightInv
          <6> QED BY <1>2, <1>3, <2>2, <4>1, <5>1, <6>1, <6>2 DEF FlightInv, KeepsPump
        <5> QED BY <5>2, <5>3, <5>4
      <4> QED BY <3>3, <4>3, <4>5, <4>6 DEF ClientInv
    <3> QED BY <3>2, <3>3
  <2> QED BY <1>2, <2>4, <2>5, <2>6, <2>7, <2>8 DEF CalmInv, First
<1>4. CASE pending[d] # r
  <2>1. pc' = pc /\ frame' = frame
    BY <1>1, <1>4 DEF ReceiveAnswer
  <2>2. Types'
    BY <1>0, <1>1, <1>2, <2>1 DEF Types
  <2>3. PumpInv' /\ LockInv'
    BY <1>0, <1>2, <2>1, PumpFrame, LockFrame DEF Holds
  <2>4. StationInv'
    BY <1>0, <1>2, <2>1 DEF StationInv, First
  <2>5. ASSUME NEW c \in Clients, First(c)
        PROVE  ClientInv(c)'
    <3>1. KeepsPump(c) /\ KeepsThreads(c) /\ KeepsData(c)
      BY <1>2, <2>1, PumpKept DEF KeepsThreads, KeepsData
    <3> QED BY <1>0, <1>2, <2>5, <3>1, ClientFrame
  <2> QED BY <1>2, <2>2, <2>3, <2>4, <2>5 DEF CalmInv, First
<1> QED BY <1>3, <1>4

LEMMA HandleAnswerStep ==
  ASSUME Base, CalmInv, NEW d \in Clients, HandleAnswer(read(d), d)
  PROVE  CalmInv'
<1>0. /\ Types /\ PumpInv /\ StationInv /\ LockInv
      /\ \A c \in Clients : First(c) => ClientInv(c)
  BY DEF CalmInv
<1>1. use \in Uses /\ DOMAIN Target \subseteq Requests
  BY TargetFacts DEF Base
<1>2. /\ pc[read(d)] = "answer" /\ ~cbLock /\ Return(read(d))
      /\ Dequeue(d, frame[read(d)].r)
      /\ Goto(read(d), IF d \in connected THEN "reading" ELSE "idle")
      /\ use' = use /\ running' = running /\ queueMap' = queueMap /\ heap' = heap
      /\ pending' = pending /\ requestChannel' = requestChannel /\ timerC' = timerC
      /\ readyForDispatch' = readyForDispatch /\ ctx' = ctx /\ pump' = pump
      /\ cbLock' = cbLock
      /\ connected' = connected /\ connects' = connects /\ wire' = wire
      /\ answered' = answered /\ Target' = Target
  BY DEF HandleAnswer, Dequeue, channels, contexts, network, locks, Target
<1>3. /\ pc' = [u \in Threads |-> pc'[u]] /\ pc'[read(d)] \in {"reading", "idle"}
      /\ d \in connected => pc'[read(d)] = "reading"
      /\ \A u \in Threads : u # read(d) => pc'[u] = pc[u]
  BY <1>0, <1>2, GotoFacts, ThreadFacts DEF Types
<1>4. /\ frame \in [Threads -> Frames] /\ callbacks \in [Clients -> Seq(Requests)]
      /\ outcome = [r \in Requests |-> outcome[r]]
  BY <1>0 DEF Types
<1>5. /\ frame' \in [Threads -> Frames]
      /\ \A u \in Threads : u # read(d) => frame'[u] = frame[u]
  BY <1>2, <1>4, ReturnFacts, ThreadFacts
<1>6. PICK x : x = frame[read(d)].r
  OBVIOUS
<1>7. /\ callbacks' \in [Clients -> Seq(Requests)]
      /\ outcome' = [r \in Requests |-> outcome'[r]]
      /\ \A c \in Clients : CallbacksOf(callbacks'[c], c)
      /\ \A c \in Clients : c # d => callbacks'[c] = callbacks[c]
      /\ \A r \in DOMAIN Target : Target[r] # d => outcome'[r] = outcome[r]
      /\ callbacks[d] # <<>> => /\ callbacks'[d] = Tail(callbacks[d])
                                /\ outcome'[callbacks[d][1]] = x
                                /\ \A r \in Requests : r # callbacks[d][1] =>
                                     outcome'[r] = outcome[r]
  BY <1>0, <1>1, <1>2, <1>4, <1>6, DequeueFacts, ZenonT(20)
<1>8. Types' /\ PumpInv'
  BY <1>0, <1>2, <1>3, <1>5, <1>7, PumpFrame, ThreadFacts DEF Types
<1>9. StationInv'
  BY <1>0, <1>1, <1>2, <1>3, <1>5, <1>7, StationFrame, ThreadFacts DEF Completing
<1>10. LockInv'
  BY <1>0, <1>1, <1>2, <1>3, LockFrame, ThreadFacts DEF Holds
<1>11. ASSUME NEW c \in Clients, First(c)
       PROVE  ClientInv(c)'
  <2>1. ClientInv(c) /\ KeepsPump(c)
    BY <1>0, <1>2, <1>3, <1>5, <1>11, PumpKept, ThreadFacts
  <2>2. CASE c # d
    <3>1. KeepsThreads(c)
      BY <1>1, <1>3, <1>5, <2>2, ThreadsKept, ThreadFacts
    <3>2. KeepsData(c)
      BY <1>2, <1>7, <2>2 DEF KeepsData
    <3> QED BY <1>2, <2>1, <3>1, <3>2, ClientFrame
  <2>3. CASE c = d
    <3>1. ControlInv(d) /\ AnswerInv(d) /\ KeepsPump(d)
      BY <2>1, <2>3 DEF ClientInv
    <3>2. /\ pc'[open(d)] = pc[open(d)] /\ pc'[close(d)] = pc[close(d)]
          /\ \A s \in DOMAIN Target : pc'[send(s)] = pc[send(s)] /\ frame'[send(s)] = frame[send(s)]
          /\ Brought(d) = 1 /\ Brought(d)' = 0
      BY <1>1, <1>2, <1>3, <1>5, ThreadFacts DEF Brought
    <3>3. d \in connected /\ pc'[read(d)] = "reading"
      BY <1>2, <1>3, <3>1 DEF ControlInv
    <3>4. ControlInv(d)'
      BY <1>2, <3>1, <3>2, <3>3 DEF ControlInv, Completing
    <3>5. callbacks[d] # <<>> /\ callbacks[d][1] = x
      BY <1>2, <1>6, <3>1 DEF AnswerInv
    <3>6. /\ callbacks'[d] = Tail(callbacks[d])
          /\ x \in Requests /\ Len(callbacks[d]) \in Nat /\ Len(callbacks[d]) > 0
          /\ Len(callbacks'[d]) = Len(callbacks[d]) - 1
          /\ \A k \in 1..Len(callbacks'[d]) : callbacks'[d][k] = callbacks[d][k + 1]
      <4>1. callbacks[d] \in Seq(Requests)
        BY <1>4
      <4>2. Head(callbacks[d]) = callbacks[d][1] /\ Head(callbacks[d]) \in Requests
        BY <3>5, <4>1
      <4> QED BY <1>7, <3>5, <4>2, TailFacts
    <3>7. AnswerInv(d)'
      <4>1. \A r \in DOMAIN Target : Target[r] = d => outcome'[r] \in {"none", r}
        BY <1>1, <1>7, <3>1, <3>5 DEF AnswerInv
      <4>2. pending[d] # NoReq /\ pending[d] \notin answered =>
              Len(callbacks'[d]) >= 1 /\ callbacks'[d][1] = pending[d]
        <5>1. SUFFICES ASSUME pending[d] # NoReq, pending[d] \notin answered
                       PROVE  Len(callbacks'[d]) >= 1 /\ callbacks'[d][1] = pending[d]
          OBVIOUS
        <5>2. Len(callbacks[d]) >= 1 + 1 /\ callbacks[d][1 + 1] = pending[d]
          BY <3>1, <3>2, <5>1 DEF AnswerInv
        <5>3. 1 \in 1..Len(callbacks'[d]) /\ Len(callbacks'[d]) >= 1
          BY <3>6, <5>2
        <5> QED BY <3>6, <5>2
      <4>3. /\ pc'[read(d)] \notin Completing \union {"answer"}
            /\ pc'[read(d)] \notin {"complete", "pop"}
        BY <3>3 DEF Completing
      <4> QED BY <1>2, <3>1, <3>2, <4>1, <4>2, <4>3 DEF AnswerInv
    <3>8. ASSUME Served'
          PROVE  FlightInv(d)' /\ QueueInv(d)' /\ OrderInv(d)'
      <4>1. FlightInv(d) /\ QueueInv(d) /\ OrderInv(d)
        BY <2>1, <2>3, <3>8 DEF ClientInv, KeepsPump
      <4>2. QueueInv(d)'
        BY <1>2, <3>2, <4>1, QueueFrame
      <4>3. Queue(d)' = Queue(d) /\ Queue(d) \in Seq(Requests) /\ Len(Queue(d)) \in Nat
        BY <1>0, <1>2, QueueFacts DEF Queue, Types
      <4>4. FlightInv(d)'
        BY <1>2, <3>1, <3>3, <4>1, <4>3 DEF FlightInv, KeepsPump, Completing
      <4>5. OrderInv(d)'
        <5>1. \A s \in DOMAIN Target : pc[send(s)] # "push"
          BY <1>0, <1>2 DEF LockInv, Holds
        <5>2. Len(callbacks[d]) = 1 + Len(Queue(d))
          BY <3>2, <4>1, <5>1 DEF OrderInv
        <5>3. \A i \in 1..Len(Queue(d)) : callbacks[d][1 + i] = Queue(d)[i]
          BY <3>2, <4>1 DEF OrderInv
        <5>4. \A i \in 1..Len(Queue(d)) : callbacks'[d][0 + i] = Queue(d)[i]
          <6>1. \A i \in 1..Len(Queue(d)) : i \in 1..Len(callbacks'[d]) /\ 0 + i = i /\ 1 + i = i + 1
            BY <3>6, <5>2
          <6> QED BY <3>6, <5>3, <6>1
        <5>5. Len(callbacks'[d]) = 0 + Len(Queue(d))
          BY <3>6, <5>2
        <5>6. \A s \in DOMAIN Target' : pc'[send(s)] # "push"
          BY <1>2, <3>2, <5>1
        <5> QED BY <3>2, <4>3, <5>4, <5>5, <5>6 DEF OrderInv
      <4> QED BY <4>2, <4>4, <4>5
    <3> QED BY <2>3, <3>4, <3>7, <3>8 DEF ClientInv
  <2> QED BY <2>2, <2>3
<1> QED BY <1>2, <1>8, <1>9, <1>10, <1>11 DEF CalmInv, First

\* The same of the read goroutine of an earlier connection.
LEMMA OldAnswerStep ==
  ASSUME Base, CalmInv, OldInv, NEW d \in Clients, HandleAnswer(oldRead(d), d)
  PROVE  CalmInv'
<1> DEFINE t == oldRead(d)
<1>0. /\ Types /\ PumpInv /\ StationInv /\ LockInv
      /\ \A c \in Clients : First(c) => ClientInv(c)
  BY DEF CalmInv
<1>1. use \in Uses /\ DOMAIN Target \subseteq Requests
  BY TargetFacts DEF Base
<1>2. /\ pc[t] = "answer" /\ Return(t) /\ Dequeue(d, frame[t].r)
      /\ use' = use /\ running' = running /\ queueMap' = queueMap /\ heap' = heap
      /\ pending' = pending /\ requestChannel' = requestChannel /\ timerC' = timerC
      /\ readyForDispatch' = readyForDispatch /\ ctx' = ctx /\ pump' = pump
      /\ cbLock' = cbLock
      /\ connected' = connected /\ connects' = connects /\ wire' = wire
      /\ answered' = answered /\ Target' = Target
  BY DEF HandleAnswer, Dequeue, channels, contexts, network, locks, Target
<1>3. /\ ~First(d) /\ t \in Threads /\ t # Pump
      /\ \A r \in Requests : t # send(r)
      /\ \A c \in Clients : t \notin {read(c), open(c), close(c)}
  BY <1>2, OldReadFacts
<1>4. /\ pc' = [u \in Threads |-> pc'[u]] /\ pc'[t] = "idle"
      /\ \A u \in Threads : u # t => pc'[u] = pc[u]
  <2>1. Goto(t, "idle")
    BY <1>3 DEF HandleAnswer
  <2> QED BY <1>0, <1>3, <2>1, GotoFacts DEF Types
<1>5. /\ frame \in [Threads -> Frames] /\ callbacks \in [Clients -> Seq(Requests)]
      /\ outcome = [r \in Requests |-> outcome[r]]
  BY <1>0 DEF Types
<1>6. /\ frame' \in [Threads -> Frames]
      /\ \A u \in Threads : u # t => frame'[u] = frame[u]
  BY <1>2, <1>3, <1>5, ReturnFacts
<1>7. /\ callbacks' \in [Clients -> Seq(Requests)]
      /\ outcome' = [r \in Requests |-> outcome'[r]]
      /\ \A c \in Clients : CallbacksOf(callbacks'[c], c)
      /\ \A c \in Clients : c # d => callbacks'[c] = callbacks[c]
      /\ \A r \in DOMAIN Target : Target[r] # d => outcome'[r] = outcome[r]
  BY <1>0, <1>1, <1>2, <1>5, DequeueFacts, ZenonT(20)
<1> HIDE DEF t
<1>8. Types'
  BY <1>0, <1>2, <1>4, <1>6, <1>7 DEF Types
<1>9. PumpInv'
  BY <1>0, <1>2, <1>3, <1>4, <1>6, PumpFrame, ThreadFacts
<1>10. StationInv'
  BY <1>0, <1>1, <1>2, <1>3, <1>4, <1>6, <1>7, StationFrame
<1>11. LockInv'
  BY <1>0, <1>1, <1>2, <1>3, <1>4, LockFrame, ThreadFacts DEF Holds
<1>12. ASSUME NEW c \in Clients, First(c)
       PROVE  ClientInv(c)'
  <2>1. c # d /\ ClientInv(c) /\ KeepsThreads(c)
    BY <1>0, <1>1, <1>3, <1>4, <1>6, <1>12, ThreadsKept
  <2>2. KeepsData(c)
    BY <1>2, <1>7, <2>1 DEF KeepsData
  <2>3. KeepsPump(c)
    BY <1>2, <1>3, <1>4, <1>6, PumpKept, ThreadFacts
  <2> QED BY <1>2, <2>1, <2>2, <2>3, ClientFrame
<1> QED BY <1>2, <1>8, <1>9, <1>10, <1>11, <1>12 DEF CalmInv, First

-----------------------------------------------------------------------------
(* Every step.                                                             *)

\* What a step does to use, timeouts, connected and wire.
LEMMA NextBase ==
  ASSUME Base, Next
  PROVE  /\ use' = use
         /\ \/ timeouts' = timeouts
            \/ timeouts' = timeouts + 1 /\ \E c \in Range(Target) : DeadlineExceeded(c)
         /\ \/ connected' = connected /\ wire' = wire
            \/ DispatchWrite
            \/ \E c \in Clients : Connect(c) \/ Disconnect(c)
<1> USE DEF channels, contexts, network, locks
<1>1. CASE PumpStep
  <2>1. CASE DispatchWrite
    BY <2>1 DEF DispatchWrite
  <2>2. CASE \/ ReqChan \/ PumpRequest \/ PumpTimeout \/ TimedOut \/ PumpReady \/ PumpStopped
             \/ PumpCheck
    BY <2>2 DEF ReqChan, PumpRequest, PumpTimeout, TimedOut, PumpReady, PumpStopped, PumpCheck
  <2>3. CASE DispatchPeek \/ AddPendingRequest \/ RequestCanceled
    BY <2>3 DEF DispatchPeek, AddPendingRequest, RequestCanceled
  <2>4. CASE \/ CompletePeek(Pump) \/ CompletePop(Pump) \/ DeletePendingRequest(Pump)
             \/ SignalReady(Pump)
    BY <2>4 DEF CompletePeek, CompletePop, DeletePendingRequest, SignalReady
  <2> QED BY <1>1, <2>1, <2>2, <2>3, <2>4 DEF PumpStep
<1>2. ASSUME NEW r \in DOMAIN Target, SendStep(r) \/ ReceiveAnswer(Target[r], r)
      PROVE  use' = use /\ timeouts' = timeouts /\ connected' = connected /\ wire' = wire
  BY <1>2 DEF SendStep, WaitForIsRunning, SendRequestAsync, Push, Notify,
     BlockOnRequestChannel, ReceiveAnswer
<1>3. ASSUME NEW c \in Range(Target), NEW t \in {read(c), oldRead(c)}, ReadStep(t, c)
      PROVE  use' = use /\ timeouts' = timeouts /\ connected' = connected /\ wire' = wire
  BY <1>3 DEF ReadStep, CompletePeek, CompletePop, DeletePendingRequest, SignalReady,
     HandleAnswer
<1>4. ASSUME NEW c \in Range(Target), CloseStep(c) \/ OpenStep(c) \/ WaitForTimeout(c)
      PROVE  use' = use /\ timeouts' = timeouts /\ connected' = connected /\ wire' = wire
  <2>1. CASE CloseStep(c)
    BY <2>1 DEF CloseStep, DeleteClient, NotifyDeleted, BlockOnRequestChannel,
       ClearClientPendingRequest, DrainCallbacks
  <2>2. CASE OpenStep(c)
    BY <2>2 DEF OpenStep, CreateClient
  <2>3. CASE WaitForTimeout(c)
    BY <2>3 DEF WaitForTimeout
  <2> QED BY <1>4, <2>1, <2>2, <2>3
<1>5. ASSUME NEW c \in Range(Target), Connect(c) \/ Disconnect(c)
      PROVE  use' = use /\ timeouts' = timeouts /\ c \in Clients
  BY <1>5, TargetFacts DEF Base, Connect, Disconnect
<1>6. ASSUME NEW c \in Range(Target), DeadlineExceeded(c)
      PROVE  use' = use /\ timeouts' = timeouts + 1 /\ connected' = connected /\ wire' = wire
  BY <1>6 DEF DeadlineExceeded
<1>7. CASE Stop \/ WaitForReaders
  BY <1>7 DEF Stop, WaitForReaders
<1> QED BY <1>1, <1>2, <1>3, <1>4, <1>5, <1>6, <1>7 DEF Next

LEMMA NextClosed ==
  ASSUME Base, ClosedInv, Next
  PROVE  ClosedInv'
<1>1. CASE connected' = connected /\ wire' = wire
  BY <1>1 DEF ClosedInv
<1>2. CASE DispatchWrite
  <2>1. CASE frame[Pump].c \in connected
    <3>1. wire' = [wire EXCEPT ![frame[Pump].c] = Append(@, frame[Pump].r)]
            /\ connected' = connected
      BY <1>2, <2>1 DEF DispatchWrite
    <3> QED BY <2>1, <3>1, ZenonT(20) DEF ClosedInv
  <2>2. CASE frame[Pump].c \notin connected
    <3>1. wire' = wire /\ connected' = connected
      BY <1>2, <2>2 DEF DispatchWrite
    <3> QED BY <3>1 DEF ClosedInv
  <2> QED BY <2>1, <2>2
<1>3. ASSUME NEW d \in Clients, Connect(d)
      PROVE  ClosedInv'
  BY <1>3 DEF ClosedInv, Connect
<1>4. ASSUME NEW d \in Clients, Disconnect(d)
      PROVE  ClosedInv'
  BY <1>4 DEF ClosedInv, Disconnect
<1> QED BY <1>1, <1>2, <1>3, <1>4, NextBase

LEMMA NextCalm ==
  ASSUME Base, CalmInv, OldInv, Next, timeouts = 0, timeouts' = 0
  PROVE  CalmInv'
<1>1. CASE PumpStep
  <2>1. ~PumpTimeout /\ ~TimedOut
    BY DEF CalmInv, PumpInv, PumpTimeout, TimedOut, Completing
  <2> QED BY <1>1, <2>1, ReqChanStep, PumpRequestStep, PumpReadyStep, PumpStoppedStep,
             PumpCheckStep, DispatchPeekStep, AddPendingRequestStep, DispatchWriteStep,
             RequestCanceledStep, PumpCompletePeekStep, PumpCompleteStep DEF PumpStep
<1>2. ASSUME NEW r \in DOMAIN Target, SendStep(r) \/ ReceiveAnswer(Target[r], r)
      PROVE  CalmInv'
  <2>1. send(r) \in Threads
    BY TargetFacts, ThreadFacts DEF Base
  <2>2. CASE BlockOnRequestChannel(send(r))
    BY <2>1, <2>2, BlockStep
  <2> QED BY <1>2, <2>2, WaitForIsRunningStep, SendRequestAsyncStep, PushStep, NotifyStep,
             ReceiveAnswerStep DEF SendStep
<1>3. ASSUME NEW c \in Range(Target), ReadStep(read(c), c) \/ ReadStep(oldRead(c), c)
      PROVE  CalmInv'
  <2>1. c \in Clients
    BY TargetFacts DEF Base
  <2>2. CASE ReadStep(read(c), c)
    BY <2>1, <2>2, ReadCompletePeekStep, ReadCompletePopStep, ReadDeleteStep,
       ReadSignalStep, HandleAnswerStep DEF ReadStep
  <2>3. CASE ReadStep(oldRead(c), c)
    BY <2>1, <2>3, OldPeekStep, OldCompleteStep, OldAnswerStep DEF ReadStep
  <2> QED BY <1>3, <2>2, <2>3
<1>4. ASSUME NEW c \in Range(Target), CloseStep(c)
      PROVE  CalmInv'
  <2>1. c \in Clients /\ close(c) \in Threads
    BY TargetFacts, ThreadFacts DEF Base
  <2>2. CASE BlockOnRequestChannel(close(c))
    BY <2>1, <2>2, BlockStep
  <2> QED BY <1>4, <2>1, <2>2, DeleteClientStep, NotifyDeletedStep, ClearStep, DrainStep DEF
             CloseStep
<1>5. ASSUME NEW c \in Range(Target), OpenStep(c) \/ Connect(c) \/ Disconnect(c)
      PROVE  CalmInv'
  <2>1. c \in Clients
    BY TargetFacts DEF Base
  <2> QED BY <1>5, <2>1, CreateClientStep, OldCreateStep, ConnectStep, DisconnectStep
          DEF OpenStep
<1>6. ASSUME NEW c \in Range(Target), DeadlineExceeded(c) \/ WaitForTimeout(c)
      PROVE  FALSE
  <2>1. c \in Clients
    BY TargetFacts DEF Base
  <2>2. ~WaitForTimeout(c)
    BY <2>1 DEF OldInv, WaitForTimeout
  <2> QED BY <1>6, <2>2 DEF DeadlineExceeded
<1>7. CASE Stop
  BY <1>7, StopStep
<1>8. CASE WaitForReaders
  BY <1>8, QuietStep DEF WaitForReaders, channels, contexts, network
<1> QED BY <1>1, <1>2, <1>3, <1>4, <1>5, <1>6, <1>7, <1>8 DEF Next

\* A step that leaves the goroutines of earlier connections alone.
LEMMA OldFrame ==
  ASSUME OldInv, connects' = connects,
         \A c \in Clients :
           /\ pc'[timer(c)] = pc[timer(c)] /\ pc'[open(c)] = pc[open(c)]
           /\ pc'[oldOpen(c)] = pc[oldOpen(c)]
           /\ pc'[oldRead(c)] = pc[oldRead(c)] /\ frame'[oldRead(c)] = frame[oldRead(c)]
  PROVE  OldInv'
BY DEF OldInv, Completing

\* A step that moves one other goroutine.
LEMMA OldMoved ==
  ASSUME OldInv, connects' = connects, NEW t,
         \A c \in Clients : t \notin {timer(c), open(c), oldOpen(c), oldRead(c)},
         \A u \in Threads : u # t => pc'[u] = pc[u] /\ frame'[u] = frame[u]
  PROVE  OldInv'
BY OldFrame, OldFacts, ThreadFacts

LEMMA NextOld ==
  ASSUME Base, CalmInv, OldInv, Next, timeouts = 0, timeouts' = 0
  PROVE  OldInv'
<1> USE DEF network
<1>0. /\ pc = [u \in Threads |-> pc[u]] /\ frame \in [Threads -> Frames]
      /\ connects \in [Clients -> Nat]
  BY OcppjServerAssumption DEF CalmInv, Types
<1>1. CASE PumpStep
  <2>1. connects' = connects
    BY <1>1 DEF PumpStep, ReqChan, PumpRequest, PumpTimeout, TimedOut, PumpReady,
       PumpStopped, PumpCheck, DispatchPeek, AddPendingRequest, DispatchWrite,
       RequestCanceled, CompletePeek, CompletePop, DeletePendingRequest, SignalReady
  <2>2. \A u \in Threads : u # Pump => pc'[u] = pc[u]
    BY <1>0, <1>1, ZenonT(20) DEF PumpStep, ReqChan, PumpRequest, PumpTimeout, TimedOut, PumpReady,
       PumpStopped, PumpCheck, DispatchPeek, AddPendingRequest, DispatchWrite, Dispatched,
       RequestCanceled, CompletePeek, CompletePop, DeletePendingRequest, SignalReady,
       CallComplete, Goto
  <2>3. \A u \in Threads : u # Pump => frame'[u] = frame[u]
    BY <1>0, <1>1 DEF PumpStep, ReqChan, PumpRequest, PumpTimeout, TimedOut, PumpReady,
       PumpStopped, PumpCheck, DispatchPeek, AddPendingRequest, DispatchWrite, Dispatched,
       RequestCanceled, CompletePeek, CompletePop, DeletePendingRequest, SignalReady,
       CallComplete, Return
  <2> QED BY <2>1, <2>2, <2>3, OldMoved, OldFacts, ThreadFacts
<1>2. ASSUME NEW r \in DOMAIN Target, SendStep(r)
      PROVE  OldInv'
  <2>1. r \in Requests
    BY TargetFacts DEF Base
  <2>2. /\ connects' = connects
        /\ \A u \in Threads : u # send(r) => pc'[u] = pc[u] /\ frame'[u] = frame[u]
    BY <1>0, <1>2 DEF SendStep, WaitForIsRunning, SendRequestAsync, Push, Notify,
       BlockOnRequestChannel, Goto, Return
  <2> QED BY <2>1, <2>2, OldMoved, OldFacts, ThreadFacts
<1>3. ASSUME NEW r \in DOMAIN Target, ReceiveAnswer(Target[r], r)
      PROVE  OldInv'
  <2>1. Target[r] \in Clients
    BY TargetFacts DEF Base
  <2>2. /\ connects' = connects
        /\ \A u \in Threads : u # read(Target[r]) => pc'[u] = pc[u] /\ frame'[u] = frame[u]
    BY <1>0, <1>3 DEF ReceiveAnswer, CallComplete, Goto
  <2> QED BY <2>1, <2>2, OldMoved, OldFacts, ThreadFacts
<1>4. ASSUME NEW d \in Range(Target)
      PROVE  /\ ReadStep(read(d), d) => OldInv'
             /\ ReadStep(oldRead(d), d) => OldInv'
             /\ CloseStep(d) => OldInv'
             /\ OpenStep(d) => OldInv'
             /\ Connect(d) => OldInv'
             /\ Disconnect(d) => OldInv'
  <2>0. d \in Clients
    BY TargetFacts DEF Base
  <2>1. ASSUME NEW t \in {read(d), oldRead(d)}, ReadStep(t, d)
        PROVE  /\ connects' = connects
               /\ \A u \in Threads : u # t => pc'[u] = pc[u] /\ frame'[u] = frame[u]
    BY <1>0, <2>1 DEF ReadStep, CompletePeek, CompletePop, DeletePendingRequest, SignalReady,
       HandleAnswer, Goto, Return
  <2>2. CASE ReadStep(read(d), d)
    BY <2>0, <2>1, <2>2, OldMoved, OldFacts, ThreadFacts
  <2>3. CASE ReadStep(oldRead(d), d)
    <3>1. pc[oldRead(d)] \in Completing \union {"answer"}
      BY <2>3 DEF ReadStep, CompletePeek, CompletePop, DeletePendingRequest, SignalReady,
         HandleAnswer, Completing
    <3>2. connects[d] >= 2 /\ frame[oldRead(d)].c = d
      BY <2>0, <3>1 DEF OldInv, Completing
    <3>3. pc'[oldRead(d)] \in Completing \union {"answer"} => frame'[oldRead(d)].c = d
      <4>1. CASE HandleAnswer(oldRead(d), d)
        <5>1. pc'[oldRead(d)] = "idle"
          BY <1>0, <2>0, <4>1, OldFacts DEF HandleAnswer, Goto
        <5> QED BY <5>1 DEF Completing
      <4>2. CASE CompletePeek(oldRead(d))
        BY <2>0, <3>2, <4>2, OldFacts, PeekFacts DEF CalmInv
      <4>3. CASE \/ CompletePop(oldRead(d)) \/ DeletePendingRequest(oldRead(d))
                 \/ SignalReady(oldRead(d))
        BY <3>2, <4>3 DEF CompletePop, DeletePendingRequest, SignalReady
      <4> QED BY <2>3, <4>1, <4>2, <4>3 DEF ReadStep
    <3>4. /\ connects' = connects
          /\ \A u \in Threads : u # oldRead(d) => pc'[u] = pc[u] /\ frame'[u] = frame[u]
      BY <2>1, <2>3
    <3>5. ASSUME NEW c \in Clients
          PROVE  /\ pc'[timer(c)] = pc[timer(c)] /\ pc'[open(c)] = pc[open(c)]
                 /\ pc'[oldOpen(c)] = pc[oldOpen(c)]
                 /\ c # d => /\ pc'[oldRead(c)] = pc[oldRead(c)]
                             /\ frame'[oldRead(c)] = frame[oldRead(c)]
      BY <2>0, <3>4, OldFacts, ThreadFacts
    <3> QED BY <3>2, <3>3, <3>4, <3>5 DEF OldInv, Completing
  <2>4. CASE CloseStep(d)
    <3>1. /\ connects' = connects
          /\ \A u \in Threads : u # close(d) => pc'[u] = pc[u] /\ frame'[u] = frame[u]
      BY <1>0, <2>4 DEF CloseStep, DeleteClient, NotifyDeleted, BlockOnRequestChannel,
         ClearClientPendingRequest, DrainCallbacks, Goto
    <3> QED BY <2>0, <3>1, OldMoved, OldFacts, ThreadFacts
  <2>5. CASE OpenStep(d)
    <3>1. PICK t \in {open(d), oldOpen(d)} :
            pc[t] = "create" /\ Goto(t, "idle") /\ frame' = frame /\ connects' = connects
      BY <2>5 DEF OpenStep, CreateClient
    <3>2. t \in Threads
      BY <2>0, ThreadFacts, OldFacts
    <3>3. pc'[t] = "idle" /\ \A u \in Threads : u # t => pc'[u] = pc[u]
      BY <1>0, <3>1, <3>2, GotoFacts
    <3>4. ASSUME NEW c \in Clients
          PROVE  /\ pc'[timer(c)] = pc[timer(c)] /\ pc'[oldRead(c)] = pc[oldRead(c)]
                 /\ pc'[open(c)] \in {"idle", pc[open(c)]}
                 /\ pc'[oldOpen(c)] \in {"idle", pc[oldOpen(c)]}
      BY <2>0, <3>3, OldFacts, ThreadFacts
    <3> QED BY <3>1, <3>4 DEF OldInv, Completing
  <2>6. CASE Connect(d)
    <3>1. /\ pc' = [pc EXCEPT ![open(d)] = "create", ![read(d)] = "reading",
                              ![oldOpen(d)] = pc[open(d)], ![oldRead(d)] = pc[read(d)]]
          /\ frame' = [frame EXCEPT ![read(d)] = NoFrame, ![oldRead(d)] = frame[read(d)]]
          /\ connects' = [connects EXCEPT ![d] = @ + 1] /\ d \notin connected
      BY <2>6 DEF Connect
    <3>2. /\ {open(d), read(d), oldOpen(d), oldRead(d)} \subseteq Threads
          /\ oldOpen(d) \notin {open(d), read(d)}
          /\ oldRead(d) \notin {open(d), read(d), oldOpen(d)}
          /\ open(d) # read(d)
      BY <2>0, ThreadFacts, OldFacts
    <3>3. /\ pc'[open(d)] = "create" /\ pc'[oldOpen(d)] = pc[open(d)]
          /\ pc'[oldRead(d)] = pc[read(d)] /\ frame'[oldRead(d)] = frame[read(d)]
          /\ connects'[d] = connects[d] + 1 /\ connects[d] \in Nat
          /\ \A c \in Clients : c # d => connects'[c] = connects[c]
      BY <1>0, <2>0, <3>1, <3>2
    <3>4. ASSUME NEW c \in Clients
          PROVE  /\ pc'[timer(c)] = pc[timer(c)]
                 /\ c # d => /\ pc'[open(c)] = pc[open(c)] /\ pc'[oldOpen(c)] = pc[oldOpen(c)]
                             /\ pc'[oldRead(c)] = pc[oldRead(c)]
                             /\ frame'[oldRead(c)] = frame[oldRead(c)]
      <4>1. timer(c) \in Threads \ {open(d), read(d), oldOpen(d), oldRead(d)}
        BY <2>0, ThreadFacts, OldFacts
      <4>2. c # d => {open(c), oldOpen(c), oldRead(c)} \subseteq
                       Threads \ {open(d), read(d), oldOpen(d), oldRead(d)}
        BY <2>0, ThreadFacts, OldFacts
      <4> QED BY <1>0, <3>1, <4>1, <4>2
    <3>5. connects[d] = 0 => pc[open(d)] = "idle" /\ pc[read(d)] = "idle"
      BY <2>0, <3>1 DEF CalmInv, First, ClientInv, ControlInv
    <3>6. pc[read(d)] \in Completing \union {"answer"} => frame[read(d)].c = d
      BY <2>0 DEF CalmInv, StationInv
    <3>7. ASSUME NEW c \in Clients, c # d
          PROVE  /\ pc'[timer(c)] = "idle" /\ pc'[open(c)] \in {"idle", "create"}
                 /\ pc'[oldOpen(c)] # "idle" \/ pc'[oldRead(c)] # "idle" => connects'[c] >= 2
                 /\ pc'[oldRead(c)] \in Completing \union {"answer"} => frame'[oldRead(c)].c = c
      BY <3>3, <3>4, <3>7 DEF OldInv
    <3>8. /\ pc'[timer(d)] = "idle"
          /\ pc'[oldOpen(d)] # "idle" \/ pc'[oldRead(d)] # "idle" => connects'[d] >= 2
          /\ pc'[oldRead(d)] \in Completing \union {"answer"} => frame'[oldRead(d)].c = d
      BY <2>0, <3>3, <3>4, <3>5, <3>6 DEF OldInv
    <3>9. Completing' = Completing
      BY DEF Completing
    <3> QED BY <3>3, <3>7, <3>8, <3>9 DEF OldInv
  <2>7. CASE Disconnect(d)
    <3>1. /\ connects' = connects /\ frame' = frame
          /\ \A u \in Threads : u \notin {close(d), read(d)} => pc'[u] = pc[u]
      BY <1>0, <2>7 DEF Disconnect
    <3>2. \A c \in Clients : {timer(c), open(c), oldOpen(c), oldRead(c)} \subseteq
                               Threads \ {close(d), read(d)}
      BY <2>0, OldFacts, ThreadFacts
    <3> QED BY <3>1, <3>2, OldFrame
  <2> QED BY <2>2, <2>3, <2>4, <2>5, <2>6, <2>7
<1>5. ASSUME NEW c \in Range(Target), DeadlineExceeded(c) \/ WaitForTimeout(c)
      PROVE  FALSE
  <2>1. c \in Clients
    BY TargetFacts DEF Base
  <2>2. ~WaitForTimeout(c)
    BY <2>1 DEF OldInv, WaitForTimeout
  <2> QED BY <1>5, <2>2 DEF DeadlineExceeded
<1>6. CASE Stop \/ WaitForReaders
  BY <1>6, OldFrame DEF Stop, WaitForReaders
<1> QED BY <1>1, <1>2, <1>3, <1>4, <1>5, <1>6 DEF Next

LEMMA NextIInv == IInv /\ [Next]_vars => IInv'
<1> SUFFICES ASSUME IInv, [Next]_vars PROVE IInv'
  OBVIOUS
<1>1. Base /\ ClosedInv /\ (timeouts = 0 => CalmInv /\ OldInv)
  BY DEF IInv
<1>2. CASE Next
  <2>1. Base'
    BY <1>1, <1>2, NextBase DEF Base
  <2>2. timeouts' = 0 => timeouts = 0
    BY <1>1, <1>2, NextBase DEF Base
  <2>3. ClosedInv'
    BY <1>1, <1>2, NextClosed
  <2>4. timeouts' = 0 => CalmInv' /\ OldInv'
    BY <1>1, <1>2, <2>2, NextCalm, NextOld
  <2> QED BY <2>1, <2>3, <2>4 DEF IInv
<1>3. CASE UNCHANGED vars
  <2>1. /\ use' = use /\ running' = running /\ queueMap' = queueMap /\ heap' = heap
        /\ pending' = pending /\ requestChannel' = requestChannel /\ timerC' = timerC
        /\ readyForDispatch' = readyForDispatch /\ ctx' = ctx /\ pump' = pump
        /\ pc' = pc /\ frame' = frame /\ cbLock' = cbLock /\ callbacks' = callbacks
        /\ connected' = connected /\ connects' = connects /\ wire' = wire
        /\ answered' = answered /\ outcome' = outcome /\ timeouts' = timeouts
    BY <1>3 DEF vars
  <2>2. Base' /\ ClosedInv'
    BY <1>1, <2>1 DEF Base, ClosedInv
  <2>3. ASSUME timeouts = 0
        PROVE  CalmInv' /\ OldInv'
    BY <1>1, <2>1, <2>3, QuietStep, OldFrame
  <2> QED BY <2>1, <2>2, <2>3 DEF IInv
<1> QED BY <1>2, <1>3

\* IInv holds in every state of the server, however many stations, requests and
\* connections there are and whatever the capacity of requestChannel.
THEOREM Invariant == Spec => []IInv
<1>1. Init => IInv
  BY InitIInv
<1>2. IInv /\ [Next]_vars => IInv'
  BY NextIInv
<1> QED BY <1>1, <1>2, PTL DEF Spec

\* Sequential: as long as no request times out, the pump writes a request to a station
\* at most once, and only when the request before it was answered, although it works
\* for all stations, on two channels, while connections open and close and the
\* application stops the server.
THEOREM RequestsAreSequential == Spec => []Sequential
<1>1. IInv => Sequential
  <2> SUFFICES ASSUME IInv, timeouts = 0, NEW c \in Clients, connects[c] <= 1
               PROVE  /\ IsInjective(wire[c])
                      /\ \A i \in 1..(Len(wire[c]) - 1) : wire[c][i] \in answered
    BY DEF Sequential
  <2>1. CalmInv /\ ClosedInv
    BY DEF IInv
  <2>2. CASE First(c)
    <3>1. AnswerInv(c) /\ wire[c] \in Seq(Requests)
      BY <2>1, <2>2 DEF CalmInv, ClientInv, Types
    <3>2. DOMAIN wire[c] = 1..Len(wire[c])
      OBVIOUS
    <3> QED BY <3>1 DEF AnswerInv, IsInjective
  <2>3. CASE ~First(c)
    <3>1. connects[c] \in Nat /\ (c \in connected => connects[c] >= 1)
      BY <2>1 DEF CalmInv, Types, StationInv
    <3>2. c \notin connected
      BY <2>3, <3>1 DEF First
    <3>3. wire[c] = <<>>
      BY <2>1, <3>2 DEF ClosedInv
    <3> QED BY <3>3 DEF IsInjective
  <2> QED BY <2>2, <2>3
<1> QED BY <1>1, Invariant, PTL

\* OwnAnswer: while its station stays connected and no request times out, the callback
\* of a request is called with the answer to that request or with an error: the order
\* of the callbacks is the order of the answers, as AnswerInv says of each station.
THEOREM AnswersMeetTheirCallbacks == Spec => []OwnAnswer
<1>1. IInv => OwnAnswer
  <2> SUFFICES ASSUME IInv, timeouts = 0, NEW r \in DOMAIN Target, Target[r] \in connected,
                      connects[Target[r]] = 1, outcome[r] \in Requests
               PROVE  outcome[r] = r
    BY DEF OwnAnswer
  <2>1. Target[r] \in Clients /\ CalmInv
    BY TargetFacts DEF IInv, Base
  <2>2. First(Target[r])
    BY DEF First
  <2>3. outcome[r] \in {"none", r}
    BY <2>1, <2>2 DEF CalmInv, ClientInv, AnswerInv
  <2> QED BY <2>3, OcppjServerAssumption
<1> QED BY <1>1, Invariant, PTL

=============================================================================
