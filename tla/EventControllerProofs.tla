----------------------- MODULE EventControllerProofs ------------------------
(***************************************************************************)
(* Proofs about EventController, for every number of executions, sockets   *)
(* and reconnect attempts, every test loop and every set of answers.       *)
(*                                                                         *)
(* The invariant IInv is shown to be inductive in three parts: types and   *)
(* control (TypeOK, PcInv), the life of a message id (RowInv, with         *)
(* SentAtMostOnce), and the columns that only Main and on_error touch      *)
(* (CurrentInv, WaitLeavesVerdict).                                        *)
(***************************************************************************)
EXTENDS EventController, TLAPS

(***************************************************************************)
(* Types and control.  TypeOK and PcInv are inductive together; the        *)
(* lemmas say which program counter a step moves, and what the shared      *)
(* steps reconnect and send leave alone.                                   *)
(***************************************************************************)
USE EventControllerAssumption DEF Main, NoSock

\* Main is not a socket thread.
LEMMA MainNotSocket == Main \notin Sockets /\ Main \in Threads
                       /\ Sockets \subseteq Threads
  BY DEF Sockets, Threads

\* The labels that reconnect() returns to: a label of Main for Main's call
\* sites, a label of the callbacks for the others.
LEMMA ReturnLabelType ==
  ASSUME NEW site \in CallSites, NEW b \in BOOLEAN
  PROVE  /\ ReturnLabel(site, b) \in MainLabels \cup SockLabels
         /\ site \in {"start", "set", "row", "again", "send"}
              => ReturnLabel(site, b) \in MainLabels
         /\ site \in {"boot", "answer", "error"}
              => /\ ReturnLabel(site, b) \in SockLabels
                 /\ ReturnLabel(site, b) # "store"
         /\ ReturnLabel(site, b) \in {"cur", "chk2", "register"}
              => site \in {"row", "again"}
         /\ ReturnLabel(site, b) \in {"send", "resend"} => site = "send"
         /\ ReturnLabel(site, b) \notin {"wait", "expired"}
         /\ ReturnLabel(site, b) = "cur" <=> site = "row"
         /\ site = "again" => ReturnLabel(site, b) = "chk2"
         /\ site = "send" => ReturnLabel(site, b) = "resend"
  BY DEF ReturnLabel, CallSites, MainLabels, SockLabels

-----------------------------------------------------------------------------
(* Types and control *)

\* The controller starts with well typed attributes and Main at its first label.
LEMMA InitType == Init => TypeOK /\ PcInv
  <1> SUFFICES ASSUME Init PROVE TypeOK /\ PcInv
    OBVIOUS
  <1>1. TypeOK
    <2>1. /\ ws \in Sockets \cup {NoSock} /\ connected \in BOOLEAN
          /\ sock \in [Sockets -> SockStates]
      BY Zenon DEF Init, SockStates
    <2>2. /\ pc \in [Threads -> MainLabels \cup SockLabels \cup CallLabels]
          /\ call \in [Threads -> CallSites] 
      BY DEF Init, MainLabels, SockLabels, CallLabels, CallSites
    <2>3. retries \in [Threads -> 0..MaxRetry] /\ command \in Commands
      BY DEF Init
    <2>4. handling \in [Sockets -> (Execs \X Answers) \cup {<<0, NoAnswer>>}]
      BY DEF Init
    <2>5. /\ waiting \subseteq Execs
          /\ asked \subseteq Sockets \X Execs
          /\ waited \subseteq Execs /\ lost \subseteq Execs
          /\ fresh \in BOOLEAN
      BY Zenon DEF Init
    <2>7. n \in 0..NExec /\ current \in 0..NExec
      BY DEF Init
    <2>6. /\ response \in [Execs -> Answers \cup {NoAnswer}]
          /\ error \in [Execs -> Errors]
      BY DEF Init, Errors
    <2>. QED  BY <2>1, <2>2, <2>3, <2>4, <2>5, <2>6, <2>7 DEF TypeOK
  <1>2. PcInv
    BY MainNotSocket DEF Init, PcInv, MainLabels, SockLabels, CallLabels,
       CallSites, Unregistered, Sending, Threads
  <1>. QED  BY <1>1, <1>2

\* Only thread t moves.
MovesOnly(t) ==
  \A u \in Threads \ {t} : pc'[u] = pc[u] /\ call'[u] = call[u]

\* A step of a socket thread keeps PcInv if it leads to a label of its own.
LEMMA SocketMove ==
  ASSUME PcInv, NEW s \in Sockets, MovesOnly(s), n' = n,
         pc'[s] \in SockLabels \cup CallLabels,
         call'[s] \in {"none", "boot", "answer", "error"},
         call'[s] = "none" <=> pc'[s] \in SockLabels,
         pc'[s] = "store" => handling'[s] \in Execs \X Answers,
         \A r \in Sockets \ {s} : handling'[r] = handling[r]
  PROVE  PcInv'
  <1>1. pc'[Main] = pc[Main] /\ call'[Main] = call[Main]
    BY MainNotSocket DEF MovesOnly
  <1>2. \A r \in Sockets \ {s} : /\ pc'[r] = pc[r] /\ call'[r] = call[r]
                                 /\ handling'[r] = handling[r]
    BY MainNotSocket DEF MovesOnly
  <1>. QED  BY <1>1, <1>2 DEF PcInv, Unregistered, Sending

\* A step of Main keeps PcInv if it leads to a label of its own, with a row to
\* work on when it needs one.
LEMMA MainMove ==
  ASSUME PcInv, MovesOnly(Main), handling' = handling,
         pc'[Main] \in MainLabels \cup CallLabels,
         call'[Main] \in {"none", "start", "set", "row", "again", "send"},
         call'[Main] = "none" <=> pc'[Main] \in MainLabels,
         Unregistered' \/ Sending' \/ pc'[Main] \in {"wait", "expired"}
           => n' \in Execs
  PROVE  PcInv'
  <1>1. \A s \in Sockets : pc'[s] = pc[s] /\ call'[s] = call[s]
    BY MainNotSocket DEF MovesOnly
  <1>. QED  BY <1>1 DEF PcInv

\* A thread inside reconnect() goes on inside it, or returns to its call site.
LEMMA ReconnectControl ==
  ASSUME TypeOK, PcInv, NEW t \in Threads, Reconnect(t)
  PROVE  /\ MovesOnly(t)
         /\ pc[t] \in CallLabels
         /\ \/ pc'[t] \in CallLabels /\ call'[t] = call[t]
            \/ /\ call'[t] = "none"
               /\ \E b \in BOOLEAN : pc'[t] = ReturnLabel(call[t], b)
         /\ pc' \in [Threads -> MainLabels \cup SockLabels \cup CallLabels]
         /\ call' \in [Threads -> CallSites]
         /\ retries' \in [Threads -> 0..MaxRetry]
         /\ command' = command
         /\ UNCHANGED <<connected, handling, waiting, rowVars, asked, ghost>>
  <1>1. PICK b \in BOOLEAN :
          /\ pc[t] \in CallLabels
          /\ Return(t, b) \/ Goto(t, "rc_register") \/ Goto(t, "rc_wait")
    BY Zenon
       DEF Reconnect, ReconnectClose, ConnectNew, ConnectWait, CallLabels, TypeOK
  <1>2. UNCHANGED <<connected, handling, waiting, rowVars, asked, ghost>>
    BY Zenon DEF Reconnect, ReconnectClose, ConnectNew, ConnectWait, connVars
  <1>3. CASE Goto(t, "rc_register") \/ Goto(t, "rc_wait")
    BY <1>1, <1>2, <1>3 DEF Goto, TypeOK, CallLabels, MovesOnly
  <1>4. CASE Return(t, b)
    <2>1. call[t] \in CallSites
      BY DEF TypeOK
    <2>2. ReturnLabel(call[t], b) \in MainLabels \cup SockLabels
      BY <2>1, ReturnLabelType
    <2>. QED  BY <1>1, <1>2, <1>4, <2>2
         DEF Return, TryAgain, TypeOK, CallLabels, CallSites, MovesOnly
  <1>. QED  BY <1>1, <1>3, <1>4

\* A step of reconnect, by whichever thread, keeps the types.
LEMMA ReconnectType ==
  ASSUME TypeOK, PcInv, NEW t \in Threads, Reconnect(t)
  PROVE  TypeOK' /\ PcInv'
  <1>1. ws' \in Sockets \cup {NoSock} /\ sock' \in [Sockets -> SockStates]
    <2>1. CASE ReconnectClose(t)
      <3>1. \A c : c \in SockStates => ClosedTo(c) \subseteq SockStates
        BY DEF ClosedTo, SockStates
      <3>. QED  BY <2>1, <3>1 DEF ReconnectClose, TypeOK, connVars
    <2>2. CASE ConnectNew(t)
      BY Zenon, <2>2 DEF ConnectNew, TypeOK, FreeSock, SockStates, connVars
    <2>3. CASE ConnectWait(t)
      BY <2>3 DEF ConnectWait, TypeOK, connVars
    <2>. QED  BY <2>1, <2>2, <2>3 DEF Reconnect
  <1>2. TypeOK'
    BY <1>1, ReconnectControl DEF TypeOK, rowVars, ghost
  <1>3. PcInv'
    <2>1. /\ MovesOnly(t) /\ handling' = handling /\ n' = n
          /\ pc[t] \in CallLabels /\ call[t] \in CallSites
          /\ \/ pc'[t] \in CallLabels /\ call'[t] = call[t]
             \/ /\ call'[t] = "none"
                /\ \E b \in BOOLEAN : pc'[t] = ReturnLabel(call[t], b)
      BY ReconnectControl DEF rowVars, TypeOK
    <2>2. CASE t \in Sockets
      <3>1. call[t] \in {"boot", "answer", "error"}
        BY <2>1, <2>2 DEF PcInv, CallLabels, SockLabels
      <3>2. /\ pc'[t] \in (SockLabels \cup CallLabels) \ {"store"}
            /\ call'[t] \in {"none", "boot", "answer", "error"}
            /\ call'[t] = "none" <=> pc'[t] \in SockLabels
        BY <2>1, <3>1, ReturnLabelType DEF CallLabels, SockLabels
      <3>. QED  BY <2>1, <2>2, <3>2, SocketMove
    <2>3. CASE t = Main
      <3>1. call[t] \in {"start", "set", "row", "again", "send"}
        BY <2>1, <2>3 DEF PcInv, CallLabels, MainLabels
      <3>2. /\ pc'[t] \in (MainLabels \cup CallLabels) \ {"wait", "expired"}
            /\ call'[t] \in {"none", "start", "set", "row", "again", "send"}
            /\ call'[t] = "none" <=> pc'[t] \in MainLabels
        BY <2>1, <3>1, ReturnLabelType DEF CallLabels, MainLabels
      <3>3. (Unregistered' => Unregistered) /\ (Sending' => Sending)
        BY <2>1, <2>3, <3>1, ReturnLabelType
           DEF Unregistered, Sending, CallLabels
      <3>. QED  BY <2>1, <2>3, <3>2, <3>3, MainMove DEF PcInv
    <2>. QED  BY <2>2, <2>3 DEF Threads
  <1>. QED  BY <1>2, <1>3

\* send_message() goes on to its end, to its exception or into reconnect(); it
\* delivers the message at most on the open socket self.ws, and then is over.
LEMMA SendControl ==
  ASSUME TypeOK, NEW t \in Threads, NEW at, NEW site \in CallSites,
         NEW after \in MainLabels \cup SockLabels,
         NEW exc \in MainLabels \cup SockLabels, NEW msgs \in SUBSET Execs,
         \/ SendMessage(t, at, site, after, exc, msgs)
         \/ SendAgain(t, at, after, exc, msgs)
  PROVE  /\ MovesOnly(t) /\ pc[t] = at
         /\ \/ /\ pc'[t] \in {after, exc} /\ call'[t] = call[t]
               /\ asked' = asked
            \/ /\ pc'[t] = "rc_close" /\ call'[t] = site
               /\ asked' = asked
            \/ /\ pc'[t] = after /\ call'[t] = call[t] /\ ws \in Sockets
               /\ asked' = asked \cup ({ws} \X msgs)
         /\ UNCHANGED <<connVars, handling, waiting, rowVars, ghost>>
         /\ TypeOK'
  <1>1. /\ pc[t] = at
        /\ UNCHANGED <<connVars, handling, waiting, rowVars, ghost>>
    BY DEF SendMessage, SendAgain
  <1>2. \/ asked' = asked /\ (Goto(t, after) \/ Goto(t, exc) \/ CallReconnect(t, site))
        \/ ws \in Sockets /\ asked' = asked \cup ({ws} \X msgs) /\ Goto(t, after)
    BY DEF SendMessage, SendAgain, WsOpen, TypeOK
  <1>3. asked' \subseteq Sockets \X Execs
    BY <1>2 DEF TypeOK
  <1>4. /\ MovesOnly(t)
        /\ \/ /\ pc'[t] \in {after, exc} /\ call'[t] = call[t]
              /\ asked' = asked
           \/ /\ pc'[t] = "rc_close" /\ call'[t] = site
              /\ asked' = asked
           \/ /\ pc'[t] = after /\ call'[t] = call[t] /\ ws \in Sockets
              /\ asked' = asked \cup ({ws} \X msgs)
    BY <1>2 DEF MovesOnly, Goto, CallReconnect, TypeOK
  <1>5. /\ pc' \in [Threads -> MainLabels \cup SockLabels \cup CallLabels]
        /\ call' \in [Threads -> CallSites]
        /\ retries' = retries /\ command' = command
    BY <1>2 DEF Goto, CallReconnect, TypeOK, CallLabels
  <1>6. TypeOK'
    BY <1>1, <1>3, <1>5 DEF TypeOK, connVars, rowVars, ghost
  <1>. QED  BY <1>1, <1>4, <1>6

\* BootNotification and the answer to a CALL, sent by a socket thread.
LEMMA SocketSendType ==
  ASSUME TypeOK, PcInv, NEW s \in Sockets, SendBoot(s) \/ SendAnswer(s)
  PROVE  /\ TypeOK' /\ PcInv' /\ MovesOnly(s)
         /\ pc[s] # "store" /\ pc'[s] # "store"
         /\ UNCHANGED <<handling, waiting, rowVars, asked, ghost>>
  <1>1. s \in Threads
    BY MainNotSocket
  <1>2. PICK at \in {"boot", "boot_resend", "answer", "answer_resend"},
             site \in {"boot", "answer"}, exc \in {"err_report", "idle"} :
          \/ SendMessage(s, at, site, "idle", exc, {})
          \/ SendAgain(s, at, "idle", exc, {})
    BY DEF SendBoot, SendAnswer
  <1>3. /\ MovesOnly(s) /\ pc[s] = at
        /\ \/ pc'[s] \in {"idle", exc} /\ call'[s] = call[s] /\ asked' = asked
           \/ pc'[s] = "rc_close" /\ call'[s] = site /\ asked' = asked
           \/ /\ pc'[s] = "idle" /\ call'[s] = call[s]
              /\ asked' = asked \cup ({ws} \X {})
        /\ UNCHANGED <<connVars, handling, waiting, rowVars, ghost>>
        /\ TypeOK'
    <2>1. /\ site \in CallSites /\ "idle" \in MainLabels \cup SockLabels
          /\ exc \in MainLabels \cup SockLabels /\ {} \in SUBSET Execs
      BY DEF CallSites, SockLabels
    <2>. QED  BY Zenon, <1>1, <1>2, <2>1, SendControl
  <1>4. asked' = asked
    BY Zenon, <1>3
  <1>5. PcInv'
    <2>1. call[s] = "none"
      BY <1>3 DEF PcInv, SockLabels
    <2>2. /\ pc'[s] \in (SockLabels \cup CallLabels) \ {"store"}
          /\ call'[s] \in {"none", "boot", "answer", "error"}
          /\ call'[s] = "none" <=> pc'[s] \in SockLabels
      BY <1>3, <2>1 DEF SockLabels, CallLabels
    <2>. QED  BY <1>3, <2>2, SocketMove DEF rowVars
  <1>. QED  BY <1>3, <1>4, <1>5

\* The callbacks and what the library does to a socket.
LEMMA SocketType ==
  ASSUME TypeOK, PcInv, NEW s \in Sockets, CallbackStep(s) \/ SocketEvent(s)
  PROVE  TypeOK' /\ PcInv'
  <1>. s \in Threads /\ s # Main
    BY MainNotSocket
  <1>1. CASE Reconnect(s)
    BY <1>1, ReconnectType
  <1>2. CASE SendBoot(s) \/ SendAnswer(s)
    BY <1>2, SocketSendType
  <1>3. CASE StoreResponse(s)
    <2>1. handling[s] \in Execs \X Answers /\ call[s] = "none"
      BY <1>3 DEF StoreResponse, PcInv, SockLabels
    <2>2. /\ response' \in [Execs -> Answers \cup {NoAnswer}]
          /\ lost' \subseteq Execs
      BY <1>3, <2>1 DEF StoreResponse, TypeOK
    <2>3. /\ handling' \in [Sockets -> (Execs \X Answers) \cup {<<0, NoAnswer>>}]
          /\ \A r \in Sockets \ {s} : handling'[r] = handling[r]
      BY <1>3 DEF StoreResponse, TypeOK
    <2>4. /\ pc' \in [Threads -> MainLabels \cup SockLabels \cup CallLabels]
          /\ MovesOnly(s) /\ pc'[s] = "idle" /\ call'[s] = call[s]
          /\ UNCHANGED <<call, command, retries, connVars, waiting, n, fresh, current,
                         error, asked, waited>>
      BY <1>3 DEF StoreResponse, Goto, TypeOK, MovesOnly, SockLabels
    <2>5. TypeOK'
      BY <2>2, <2>3, <2>4 DEF TypeOK, connVars
    <2>6. PcInv'
      BY <2>1, <2>3, <2>4, SocketMove DEF SockLabels
    <2>. QED  BY <2>5, <2>6
  <1>4. CASE ReportError(s)
    <2>1. call[s] = "none"
      BY <1>4 DEF ReportError, PcInv, SockLabels
    <2>2. /\ error' \in [Execs -> Errors]
          /\ UNCHANGED <<connVars, command, retries, handling, waiting, n, fresh, current,
                         response, asked, ghost>>
      BY <1>4 DEF ReportError, TypeOK, Errors, CallReconnect, Goto
    <2>3. /\ pc' \in [Threads -> MainLabels \cup SockLabels \cup CallLabels]
          /\ call' \in [Threads -> CallSites] /\ MovesOnly(s)
          /\ \/ pc'[s] = "idle" /\ call'[s] = call[s]
             \/ pc'[s] = "rc_close" /\ call'[s] = "error"
      BY <1>4 DEF ReportError, Goto, CallReconnect, TypeOK, MovesOnly,
         SockLabels, CallLabels, CallSites
    <2>4. TypeOK'
      BY <2>2, <2>3 DEF TypeOK, connVars, ghost
    <2>5. PcInv'
      BY <2>1, <2>2, <2>3, SocketMove DEF SockLabels, CallLabels
    <2>. QED  BY <2>4, <2>5
  <1>5. CASE OnOpen(s) \/ OnCall(s) \/ SocketFails(s) \/ OnClose(s)
    <2>1. call[s] = "none" /\ pc[s] = "idle"
      BY <1>5 DEF OnOpen, OnCall, SocketFails, OnClose, PcInv, SockLabels
    <2>2. /\ sock' \in [Sockets -> SockStates]
          /\ UNCHANGED <<ws, command, retries, handling, waiting, rowVars, asked, ghost>>
      BY <1>5 DEF OnOpen, OnCall, SocketFails, OnClose, TypeOK, SockStates,
         connVars, pcVars, Goto
    <2>3. connected' \in BOOLEAN
      BY Zenon, <1>5 DEF OnOpen, OnCall, SocketFails, OnClose, TypeOK, connVars
    <2>4. /\ pc' \in [Threads -> MainLabels \cup SockLabels \cup CallLabels]
          /\ MovesOnly(s) /\ call' = call
          /\ pc'[s] \in {"idle", "boot", "answer", "err_report"}
      BY <1>5, <2>1 DEF OnOpen, OnCall, SocketFails, OnClose, TypeOK, pcVars,
         Goto, MovesOnly, SockLabels
    <2>5. TypeOK'
      BY <2>2, <2>3, <2>4 DEF TypeOK, rowVars, ghost
    <2>6. PcInv'
      BY <2>1, <2>2, <2>4, SocketMove DEF SockLabels, rowVars
    <2>. QED  BY <2>5, <2>6
  <1>6. CASE OnResponse(s)
    <2>1. call[s] = "none"
      BY <1>6 DEF OnResponse, PcInv, SockLabels
    <2>2. PICK e \in Execs, a \in Answers :
            /\ waiting' = waiting \ {e}
            /\ handling' = [handling EXCEPT ![s] = <<e, a>>]
      BY Zenon, <1>6 DEF OnResponse
    <2>3. /\ handling' \in [Sockets -> (Execs \X Answers) \cup {<<0, NoAnswer>>}]
          /\ handling'[s] \in Execs \X Answers
          /\ \A r \in Sockets \ {s} : handling'[r] = handling[r]
      BY <2>2 DEF TypeOK
    <2>4. /\ pc' \in [Threads -> MainLabels \cup SockLabels \cup CallLabels]
          /\ MovesOnly(s) /\ pc'[s] = "store" /\ call'[s] = call[s]
          /\ UNCHANGED <<call, command, retries, connVars, rowVars, asked, ghost>>
      BY <1>6 DEF OnResponse, Goto, TypeOK, MovesOnly, SockLabels
    <2>5. TypeOK'
      BY <2>2, <2>3, <2>4 DEF TypeOK, connVars, rowVars, ghost
    <2>6. PcInv'
      BY <2>1, <2>3, <2>4, SocketMove DEF SockLabels, rowVars
    <2>. QED  BY <2>5, <2>6
  <1>. QED
    BY <1>1, <1>2, <1>3, <1>4, <1>5, <1>6 DEF CallbackStep, SocketEvent

\* send_message() called by send_message_and_wait.
LEMMA MainSendType ==
  ASSUME TypeOK, PcInv, MainSend
  PROVE  /\ TypeOK' /\ PcInv' /\ MovesOnly(Main)
         /\ Sending /\ ~Unregistered /\ ~Unregistered' /\ n \in Execs
         /\ UNCHANGED <<connVars, handling, waiting, rowVars, ghost>>
         /\ \/ asked' = asked
            \/ /\ ws \in Sockets /\ asked' = asked \cup ({ws} \X {n})
               /\ ~Sending'
  <1>1. PICK at \in {"send", "resend"} :
          \/ SendMessage(Main, at, "send", "wait", OnException, {n})
          \/ SendAgain(Main, at, "wait", OnException, {n})
    BY DEF MainSend
  <1>2. pc[Main] = at
    BY <1>1 DEF SendMessage, SendAgain
  <1>3. call[Main] = "none" /\ n \in Execs
    BY <1>2 DEF PcInv, MainLabels, Sending
  <1>4. /\ "send" \in CallSites /\ "wait" \in MainLabels
        /\ OnException \in {"done", "next"} /\ {n} \in SUBSET Execs
        /\ OnException \in MainLabels
    BY <1>3 DEF CallSites, MainLabels, OnException
  <1>5. /\ MovesOnly(Main)
        /\ \/ /\ pc'[Main] \in {"wait", OnException} /\ call'[Main] = call[Main]
              /\ asked' = asked
           \/ /\ pc'[Main] = "rc_close" /\ call'[Main] = "send"
              /\ asked' = asked
           \/ /\ pc'[Main] = "wait" /\ call'[Main] = call[Main]
              /\ ws \in Sockets /\ asked' = asked \cup ({ws} \X {n})
        /\ UNCHANGED <<connVars, handling, waiting, rowVars, ghost>>
        /\ TypeOK'
    BY Zenon, <1>1, <1>4, MainNotSocket, SendControl
  <1>6. /\ Sending /\ ~Unregistered /\ ~Unregistered'
        /\ \/ asked' = asked
           \/ /\ ws \in Sockets /\ asked' = asked \cup ({ws} \X {n})
              /\ ~Sending'
    BY <1>2, <1>3, <1>4, <1>5 DEF Sending, Unregistered
  <1>7. PcInv'
    BY <1>3, <1>4, <1>5, MainMove DEF MainLabels, CallLabels, rowVars
  <1>. QED  BY <1>3, <1>5, <1>6, <1>7

\* The steps of the test loops and of send_message_and_wait.
LEMMA MainType ==
  ASSUME TypeOK, PcInv, MainStep
  PROVE  TypeOK' /\ PcInv'
  <1>. Main \in Threads
    BY MainNotSocket
  <1>1. CASE Reconnect(Main)
    BY <1>1, ReconnectType
  <1>2. CASE MainSend
    BY <1>2, MainSendType
  <1>3. CASE StartSet
    <2>1. /\ pc' \in [Threads -> MainLabels \cup SockLabels \cup CallLabels]
          /\ call' \in [Threads -> CallSites] /\ MovesOnly(Main)
          /\ pc'[Main] = "rc_close" /\ call'[Main] = "set"
          /\ UNCHANGED <<command, retries, connVars, handling, waiting, n, current,
                         response, error, asked, ghost>>
      BY <1>3 DEF StartSet, CallReconnect, TypeOK, MovesOnly, CallLabels, CallSites
    <2>2. fresh' \in BOOLEAN
      BY <1>3 DEF StartSet
    <2>3. PcInv'
      BY <2>1, MainMove DEF CallLabels, MainLabels, Unregistered, Sending
    <2>. QED  BY <2>1, <2>2, <2>3 DEF TypeOK, connVars, ghost
  <1>4. CASE CreateRow
    <2>1. /\ pc' \in [Threads -> MainLabels \cup SockLabels \cup CallLabels]
          /\ call' \in [Threads -> CallSites] /\ MovesOnly(Main)
          /\ \/ pc'[Main] = "cur" /\ call'[Main] = call[Main]
             \/ pc'[Main] = "rc_close" /\ call'[Main] = "row"
          /\ UNCHANGED <<command, retries, connVars, handling, waiting, current,
                         response, error, asked, ghost>>
      BY <1>4 DEF CreateRow, CallReconnect, Goto, TypeOK, MovesOnly, CallLabels,
         CallSites, MainLabels
    <2>2. n' \in 0..NExec /\ n' \in Execs
      BY <1>4 DEF CreateRow, TypeOK, Execs
    <2>3. fresh' \in BOOLEAN
      BY Zenon, <1>4 DEF CreateRow
    <2>4. call[Main] = "none"
      BY <1>4 DEF CreateRow, PcInv, MainLabels
    <2>5. PcInv'
      BY <2>1, <2>2, <2>4, MainMove DEF CallLabels, MainLabels
    <2>. QED  BY <2>1, <2>2, <2>3, <2>5 DEF TypeOK, connVars, ghost
  <1>5. CASE SetCurrent
    <2>1. /\ pc' \in [Threads -> MainLabels \cup SockLabels \cup CallLabels]
          /\ call' \in [Threads -> CallSites] /\ MovesOnly(Main)
          /\ \/ pc'[Main] \in {"register", "next"} /\ call'[Main] = call[Main]
             \/ pc'[Main] = "rc_close" /\ call'[Main] = "again"
          /\ UNCHANGED <<command, retries, connVars, handling, waiting, n, fresh,
                         response, error, asked, ghost>>
      BY <1>5 DEF SetCurrent, CallReconnect, Goto, TypeOK, MovesOnly,
         CallLabels, CallSites, MainLabels
    <2>2. current' \in 0..NExec
      BY <1>5 DEF SetCurrent, TypeOK
    <2>3. call[Main] = "none" /\ n \in Execs
      BY <1>5 DEF SetCurrent, PcInv, MainLabels, Unregistered
    <2>4. PcInv'
      BY <2>1, <2>3, MainMove DEF CallLabels, MainLabels
    <2>. QED  BY <2>1, <2>2, <2>4 DEF TypeOK, connVars, ghost
  <1>6. CASE CheckAgain \/ Register \/ Poll \/ CommitTimeout \/ EndCommand
    <2>1. /\ pc' \in [Threads -> MainLabels \cup SockLabels \cup CallLabels]
          /\ call' = call /\ MovesOnly(Main)
          /\ pc[Main] \in MainLabels
          /\ pc'[Main] \in {"register", "send", "next", "expired", "done"}
          /\ UNCHANGED <<command, retries, connVars, handling, n, fresh, current,
                         response, asked, lost>>
      BY <1>6 DEF CheckAgain, Register, Poll, CommitTimeout, EndCommand, Goto,
         TypeOK, MovesOnly, MainLabels, rowVars, ghost
    <2>2. n \in Execs \/ pc'[Main] = "done"
      BY <1>6 DEF CheckAgain, Register, Poll, CommitTimeout, EndCommand, PcInv,
         Unregistered, Sending, Goto, TypeOK
    <2>3. /\ waiting' \subseteq Execs /\ waited' \subseteq Execs
          /\ error' \in [Execs -> Errors]
      <3>1. CASE CheckAgain \/ EndCommand
        BY <1>6, <3>1 DEF CheckAgain, EndCommand, TypeOK, rowVars, ghost
      <3>2. CASE Register \/ Poll \/ CommitTimeout
        <4>1. n \in Execs
          BY <3>2 DEF Register, Poll, CommitTimeout, PcInv, Unregistered
        <4>. QED  BY <3>2, <4>1 DEF Register, Poll, CommitTimeout, TypeOK,
                  rowVars, ghost, Errors
      <3>. QED  BY <1>6, <3>1, <3>2
    <2>4. PcInv'
      <3>1. call[Main] = "none"
        BY <2>1 DEF PcInv
      <3>2. pc'[Main] # "done" => n' \in Execs
        BY <2>1, <2>2
      <3>. QED  BY <2>1, <3>1, <3>2, MainMove
                DEF CallLabels, MainLabels, Unregistered, Sending
    <2>. QED  BY <2>1, <2>3, <2>4 DEF TypeOK, connVars
  <1>. QED
    BY <1>1, <1>2, <1>3, <1>4, <1>5, <1>6 DEF MainStep

\* Every step of Main or of a socket thread keeps types and control.
LEMMA TypeStep ==
  ASSUME TypeOK, PcInv, [Next]_vars
  PROVE  TypeOK' /\ PcInv'
  <1>1. CASE UNCHANGED vars
    BY <1>1 DEF vars, TypeOK, PcInv, Unregistered, Sending
  <1>2. CASE Next
    BY <1>1, <1>2, MainType, SocketType DEF Next, Finished
  <1>. QED  BY <1>1, <1>2

\* Every attribute of the controller and every column of its rows keeps its
\* type, whatever Main, the callbacks and the CSMS do.
THEOREM TypeCorrect == Spec => []TypeOK
  <1>1. Init => TypeOK /\ PcInv
    BY InitType
  <1>2. TypeOK /\ PcInv /\ [Next]_vars => TypeOK' /\ PcInv'
    BY TypeStep
  <1>. QED  BY <1>1, <1>2, PTL DEF Spec

-----------------------------------------------------------------------------
(***************************************************************************)
(* The life of a message id.  RowInv and SentAtMostOnce are preserved by   *)
(* every step from a state in which TypeOK and PcInv hold.                 *)
(***************************************************************************)
USE EventControllerAssumption DEF Main, NoSock

Ids == RowInv /\ SentAtMostOnce

\* Before the first execution nothing is waited for, asked or in hand.
LEMMA InitIds == Init => Ids
  <1> SUFFICES ASSUME Init PROVE Ids
    OBVIOUS
  <1>1. \A s \in Sockets : pc[s] # "store"
    BY MainNotSocket DEF Init
  <1>2. ~Sending /\ \A e \in Execs : ~Asked(e) /\ response[e] = NoAnswer
    BY MainNotSocket DEF Init, Sending, Asked
  <1>3. waiting = {} /\ asked = {}
    BY DEF Init
  <1>. QED  BY <1>1, <1>2, <1>3 DEF Ids, RowInv, SentAtMostOnce

\* A step that touches no id, row or answer in hand, and does not take Main
\* back before the registration or before the send.
LEMMA IdsFrame ==
  ASSUME Ids, UNCHANGED <<handling, waiting, n, response, asked, lost>>,
         \A s \in Sockets : pc'[s] = "store" <=> pc[s] = "store",
         Unregistered' => Unregistered, Sending' => Sending
  PROVE  Ids'
  <1>1. \A e : (Registered(e) => Registered(e)') /\ (Asked(e)' <=> Asked(e))
    BY DEF Registered, Asked
  <1>2. \A e : Awaited(e)' <=> Awaited(e)
    BY DEF Awaited, InHand
  <1>. QED  BY <1>1, <1>2 DEF Ids, RowInv, SentAtMostOnce

\* Callbacks keep the ids: on_response_message takes one out of waiting_msg_ids
\* and its commit fills the row or loses the answer.
LEMMA SocketIds ==
  ASSUME TypeOK, PcInv, Ids, NEW s \in Sockets,
         CallbackStep(s) \/ SocketEvent(s)
  PROVE  Ids'
  <1>. s \in Threads /\ s # Main
    BY MainNotSocket
  <1>0. ASSUME MovesOnly(s)
        PROVE  /\ Unregistered' = Unregistered /\ Sending' = Sending
               /\ \A r \in Sockets \ {s} : pc'[r] = pc[r]
    BY <1>0, MainNotSocket DEF MovesOnly, Unregistered, Sending
  <1>1. CASE Reconnect(s)
    <2>1. /\ MovesOnly(s) /\ pc[s] \in CallLabels
          /\ \/ pc'[s] \in CallLabels
             \/ \E b \in BOOLEAN : pc'[s] = ReturnLabel(call[s], b)
          /\ UNCHANGED <<handling, waiting, n, response, asked, lost>>
      BY <1>1, ReconnectControl DEF rowVars, ghost
    <2>2. call[s] \in {"boot", "answer", "error"} /\ call[s] \in CallSites
      BY <2>1 DEF PcInv, CallLabels, SockLabels, CallSites
    <2>3. pc[s] # "store" /\ pc'[s] # "store"
      BY <2>1, <2>2, ReturnLabelType DEF CallLabels
    <2>. QED  BY <1>0, <2>1, <2>3, IdsFrame
  <1>2. CASE SendBoot(s) \/ SendAnswer(s)
    BY <1>0, <1>2, SocketSendType, IdsFrame DEF rowVars, ghost
  <1>3. CASE \/ ReportError(s) \/ OnOpen(s) \/ OnCall(s) \/ SocketFails(s)
             \/ OnClose(s)
    <2>1. /\ MovesOnly(s) /\ pc[s] # "store" /\ pc'[s] # "store"
          /\ UNCHANGED <<handling, waiting, n, response, asked, lost>>
      BY <1>3 DEF ReportError, OnOpen, OnCall, SocketFails, OnClose, MovesOnly,
         Goto, CallReconnect, TypeOK, rowVars, ghost, pcVars
    <2>. QED  BY <1>0, <2>1, IdsFrame
  <1>4. CASE OnResponse(s)
    <2>1. PICK e \in Execs, a \in Answers :
            /\ e \in waiting
            /\ waiting' = waiting \ {e}
            /\ handling' = [handling EXCEPT ![s] = <<e, a>>]
      BY Zenon, <1>4 DEF OnResponse
    <2>2. /\ MovesOnly(s) /\ pc[s] = "idle" /\ pc'[s] = "store"
          /\ UNCHANGED <<n, response, asked, lost>>
      BY <1>4 DEF OnResponse, MovesOnly, Goto, TypeOK, rowVars, ghost
    <2>3. /\ handling'[s][1] = e
          /\ \A r \in Sockets \ {s} : /\ handling'[r] = handling[r]
                                      /\ pc'[r] = pc[r]
      BY <1>0, <2>1, <2>2 DEF TypeOK
    <2>4. \A x : /\ Registered(x)' <=> Registered(x)
                 /\ Asked(x)' <=> Asked(x)
                 /\ Awaited(x) => Awaited(x)'
      <3>1. \A x : InHand(x) => InHand(x)'
        BY <2>2, <2>3 DEF InHand
      <3>2. InHand(e)'
        BY <2>2, <2>3 DEF InHand
      <3>. QED  BY <1>0, <2>1, <2>2, <3>1, <3>2
                DEF Registered, Asked, Awaited
    <2>5. Registered(e) /\ response[e] = NoAnswer
          /\ \A r \in Sockets : pc[r] = "store" => handling[r][1] # e
      BY <2>1 DEF Ids, RowInv
    <2>6. RowInv'
      <3>1. \A x \in waiting' : Registered(x)' /\ response'[x] = NoAnswer
        BY <2>1, <2>2, <2>4 DEF Ids, RowInv
      <3>2. ASSUME NEW r \in Sockets, pc'[r] = "store"
            PROVE  /\ Registered(handling[r][1])'
                   /\ handling'[r][1] \notin waiting'
                   /\ response'[handling'[r][1]] = NoAnswer
        <4>1. CASE r = s
          BY <2>1, <2>2, <2>3, <2>4, <2>5, <4>1
        <4>2. CASE r # s
          <5>1. pc[r] = "store" /\ handling'[r] = handling[r]
            BY <2>3, <3>2, <4>2
          <5>2. /\ Registered(handling[r][1]) /\ handling[r][1] \notin waiting
                /\ response[handling[r][1]] = NoAnswer
            BY <5>1 DEF Ids, RowInv
          <5>. QED  BY <2>1, <2>2, <2>4, <5>1, <5>2
        <4>. QED  BY <4>1, <4>2
      <3>3. ASSUME NEW q \in Sockets, NEW r \in Sockets,
                   pc'[q] = "store", pc'[r] = "store", q # r
            PROVE  handling'[q][1] # handling'[r][1]
        <4>1. CASE q = s \/ r = s
          BY <2>3, <2>5, <3>3, <4>1
        <4>2. CASE q # s /\ r # s
          BY <2>3, <3>3, <4>2 DEF Ids, RowInv
        <4>. QED  BY <4>1, <4>2
      <3>4. \A x \in Execs : response'[x] # NoAnswer => Registered(x)'
        BY <2>2, <2>4 DEF Ids, RowInv
      <3>5. \A x \in Execs : Asked(x)' => Registered(x)' /\ Awaited(x)'
        BY <2>4 DEF Ids, RowInv
      <3>6. Sending' => ~Asked(n)' /\ Awaited(n)'
        BY Zenon, <1>0, <2>2, <2>4 DEF Ids, RowInv
      <3>. QED  BY <3>1, <3>2, <3>3, <3>4, <3>5, <3>6 DEF RowInv
    <2>. QED  BY <2>2, <2>6 DEF Ids, SentAtMostOnce
  <1>5. CASE StoreResponse(s)
    <2>0. PICK e : e = handling[s][1]
      OBVIOUS
    <2>1. /\ MovesOnly(s) /\ pc[s] = "store" /\ pc'[s] = "idle"
          /\ UNCHANGED <<n, waiting, asked>>
          /\ \A r \in Sockets \ {s} : handling'[r] = handling[r]
      BY <1>5 DEF StoreResponse, MovesOnly, Goto, TypeOK
    <2>2. e \in Execs /\ handling[s][2] \in Answers
      BY <2>0, <2>1 DEF PcInv
    <2>3. /\ \A x \in Execs \ {e} : response'[x] = response[x]
          /\ response'[e] # NoAnswer \/ e \in lost'
          /\ lost \subseteq lost'
      BY <1>5, <2>0, <2>2 DEF StoreResponse, TypeOK
    <2>4. /\ Registered(e) /\ e \notin waiting /\ response[e] = NoAnswer
          /\ \A r \in Sockets \ {s} : pc[r] = "store" => handling[r][1] # e
      BY <2>0, <2>1 DEF Ids, RowInv
    <2>5. \A r \in Sockets \ {s} : pc'[r] = pc[r]
      BY <1>0, <2>1
    <2>6. \A x : (Registered(x)' <=> Registered(x)) /\ (Asked(x)' <=> Asked(x))
      BY <1>0, <2>1 DEF Registered, Asked
    <2>7. \A x \in Execs : Awaited(x) => Awaited(x)'
      <3>1. Awaited(e)'
        BY <2>3 DEF Awaited
      <3>2. \A x \in Execs \ {e} : InHand(x) => InHand(x)'
        BY <2>0, <2>1, <2>5 DEF InHand
      <3>. QED  BY <2>1, <2>3, <3>1, <3>2 DEF Awaited
    <2>8. Sending' => Sending /\ n \in Execs
      BY Zenon, <1>0, <2>1 DEF PcInv
    <2>9. \A r \in Sockets : pc'[r] = "store" =>
            /\ r # s /\ pc[r] = "store" /\ handling'[r] = handling[r]
            /\ handling[r][1] \in Execs \ {e}
      BY <2>1, <2>4, <2>5 DEF PcInv
    <2>10. RowInv'
      <3>1. \A x \in waiting' : Registered(x)' /\ response'[x] = NoAnswer
        BY <2>1, <2>3, <2>4, <2>6 DEF Ids, RowInv, TypeOK
      <3>2. \A r \in Sockets : pc'[r] = "store" =>
              /\ Registered(handling[r][1])'
              /\ handling'[r][1] \notin waiting'
              /\ response'[handling'[r][1]] = NoAnswer
        BY <2>1, <2>3, <2>6, <2>9 DEF Ids, RowInv
      <3>3. \A x \in Execs : response'[x] # NoAnswer => Registered(x)'
        BY <2>3, <2>4, <2>6 DEF Ids, RowInv
      <3>4. \A q, r \in Sockets :
              pc'[q] = "store" /\ pc'[r] = "store" /\ q # r
                => handling'[q][1] # handling'[r][1]
        BY <2>9 DEF Ids, RowInv
      <3>5. \A x \in Execs : Asked(x)' => Registered(x)' /\ Awaited(x)'
        BY <2>6, <2>7 DEF Ids, RowInv
      <3>6. Sending' => ~Asked(n)' /\ Awaited(n)'
        BY <2>1, <2>6, <2>7, <2>8 DEF Ids, RowInv
      <3>. QED  BY <2>1, <2>9, <3>1, <3>2, <3>3, <3>4, <3>5, <3>6 DEF RowInv
    <2>. QED  BY <2>1, <2>10 DEF Ids, SentAtMostOnce
  <1>. QED
    BY <1>1, <1>2, <1>3, <1>4, <1>5 DEF CallbackStep, SocketEvent

\* Main keeps the ids: it registers a new one, sends it once, and gives it up
\* without taking it out of waiting_msg_ids.
LEMMA MainIds ==
  ASSUME TypeOK, PcInv, Ids, MainStep
  PROVE  Ids'
  <1>. Main \in Threads
    BY MainNotSocket
  <1>0. ASSUME MovesOnly(Main)
        PROVE  \A s \in Sockets : pc'[s] = pc[s]
    BY <1>0, MainNotSocket DEF MovesOnly
  <1>1. CASE Reconnect(Main)
    <2>1. /\ MovesOnly(Main) /\ pc[Main] \in CallLabels
          /\ \/ pc'[Main] \in CallLabels /\ call'[Main] = call[Main]
             \/ /\ call'[Main] = "none"
                /\ \E b \in BOOLEAN : pc'[Main] = ReturnLabel(call[Main], b)
          /\ UNCHANGED <<handling, waiting, n, response, asked, lost>>
      BY <1>1, ReconnectControl DEF rowVars, ghost
    <2>2. call[Main] \in CallSites
      BY DEF TypeOK
    <2>3. (Unregistered' => Unregistered) /\ (Sending' => Sending)
      BY <2>1, <2>2, ReturnLabelType DEF Unregistered, Sending, CallLabels
    <2>. QED  BY <1>0, <2>1, <2>3, IdsFrame
  <1>2. CASE MainSend
    <2>1. /\ MovesOnly(Main) /\ Sending /\ ~Unregistered /\ ~Unregistered'
          /\ n \in Execs
          /\ UNCHANGED <<handling, waiting, n, response, lost>>
          /\ \/ asked' = asked
             \/ /\ ws \in Sockets /\ asked' = asked \cup ({ws} \X {n})
                /\ ~Sending'
      BY <1>2, MainSendType DEF rowVars, ghost
    <2>2. CASE asked' = asked
      BY <1>0, <2>1, <2>2, IdsFrame
    <2>3. CASE ws \in Sockets /\ asked' = asked \cup ({ws} \X {n}) /\ ~Sending'
      <3>1. ~Asked(n) /\ Awaited(n) /\ Registered(n)
        BY <2>1 DEF Ids, RowInv, Registered, Execs
      <3>2. \A x : /\ Registered(x) => Registered(x)'
                   /\ Awaited(x) => Awaited(x)'
                   /\ Asked(x)' => Asked(x) \/ x = n
        BY Zenon, <1>0, <2>1, <2>3 DEF Registered, Awaited, InHand, Asked
      <3>3. RowInv'
        <4>1. \A x \in waiting' : Registered(x)' /\ response'[x] = NoAnswer
          BY <2>1, <3>2 DEF Ids, RowInv
        <4>2. \A r \in Sockets : pc'[r] = "store" =>
                /\ Registered(handling[r][1])'
                /\ handling'[r][1] \notin waiting'
                /\ response'[handling'[r][1]] = NoAnswer
          BY <1>0, <2>1, <3>2 DEF Ids, RowInv
        <4>3. \A q, r \in Sockets :
                pc'[q] = "store" /\ pc'[r] = "store" /\ q # r
                  => handling'[q][1] # handling'[r][1]
          BY <1>0, <2>1 DEF Ids, RowInv
        <4>4. \A x \in Execs : response'[x] # NoAnswer => Registered(x)'
          BY <2>1, <3>2 DEF Ids, RowInv
        <4>5. \A x \in Execs : Asked(x)' => Registered(x)' /\ Awaited(x)'
          BY <3>1, <3>2 DEF Ids, RowInv
        <4>. QED  BY <2>3, <4>1, <4>2, <4>3, <4>4, <4>5 DEF RowInv
      <3>4. SentAtMostOnce'
        BY <2>3, <3>1 DEF Ids, SentAtMostOnce, Asked
      <3>. QED  BY <3>3, <3>4 DEF Ids
    <2>. QED  BY <2>1, <2>2, <2>3
  <1>3. CASE \/ StartSet \/ SetCurrent \/ CheckAgain \/ Poll \/ CommitTimeout
             \/ EndCommand
    <2>1. /\ MovesOnly(Main)
          /\ UNCHANGED <<handling, waiting, n, response, asked, lost>>
      BY <1>3 DEF StartSet, SetCurrent, CheckAgain, Poll, CommitTimeout,
         EndCommand, MovesOnly, Goto, CallReconnect, TypeOK, rowVars, ghost
    <2>2. call[Main] = "none"
      BY <1>3 DEF StartSet, SetCurrent, CheckAgain, Poll, CommitTimeout,
         EndCommand, PcInv, MainLabels
    <2>3. (Unregistered' => Unregistered) /\ (Sending' => Sending)
      BY <1>3, <2>2 DEF StartSet, SetCurrent, CheckAgain, Poll, CommitTimeout,
         EndCommand, Goto, CallReconnect, TypeOK, Unregistered, Sending
    <2>. QED  BY <1>0, <2>1, <2>3, IdsFrame
  <1>4. CASE CreateRow
    <2>1. /\ MovesOnly(Main) /\ n' = n + 1 /\ ~Sending'
          /\ UNCHANGED <<handling, waiting, response, asked, lost>>
      BY <1>4 DEF CreateRow, MovesOnly, Goto, CallReconnect, TypeOK, ghost,
         Sending, PcInv, MainLabels
    <2>2. \A x : /\ Registered(x) => Registered(x)'
                 /\ Awaited(x) => Awaited(x)'
                 /\ Asked(x)' <=> Asked(x)
      BY <1>0, <2>1 DEF Registered, Awaited, InHand, Asked, TypeOK
    <2>3. RowInv'
      <3>1. \A x \in waiting' : Registered(x)' /\ response'[x] = NoAnswer
        BY <2>1, <2>2 DEF Ids, RowInv
      <3>2. \A r \in Sockets : pc'[r] = "store" =>
              /\ Registered(handling[r][1])'
              /\ handling'[r][1] \notin waiting'
              /\ response'[handling'[r][1]] = NoAnswer
        BY <1>0, <2>1, <2>2 DEF Ids, RowInv
      <3>3. \A q, r \in Sockets :
              pc'[q] = "store" /\ pc'[r] = "store" /\ q # r
                => handling'[q][1] # handling'[r][1]
        BY <1>0, <2>1 DEF Ids, RowInv
      <3>4. \A x \in Execs : /\ response'[x] # NoAnswer => Registered(x)'
                             /\ Asked(x)' => Registered(x)' /\ Awaited(x)'
        BY <2>1, <2>2 DEF Ids, RowInv
      <3>. QED  BY <2>1, <3>1, <3>2, <3>3, <3>4 DEF RowInv
    <2>. QED  BY <2>1, <2>3 DEF Ids, SentAtMostOnce
  <1>5. CASE Register
    <2>1. /\ MovesOnly(Main) /\ waiting' = waiting \cup {n}
          /\ Unregistered /\ ~Unregistered' /\ n \in Execs
          /\ UNCHANGED <<handling, n, response, asked, lost>>
      BY <1>5 DEF Register, MovesOnly, Goto, TypeOK, rowVars, ghost, PcInv,
         Unregistered, MainLabels
    <2>2. ~Registered(n) /\ Registered(n)'
      BY <2>1 DEF Registered, Execs
    <2>3. \A x : /\ Registered(x) => Registered(x)'
                 /\ Awaited(x) => Awaited(x)'
                 /\ Asked(x)' <=> Asked(x)
      BY <1>0, <2>1 DEF Registered, Awaited, InHand, Asked
    <2>4. Awaited(n)'
      BY <2>1 DEF Awaited
    <2>5. RowInv'
      <3>1. /\ response[n] = NoAnswer /\ n \notin waiting /\ ~Asked(n)
            /\ \A r \in Sockets : pc[r] = "store" => handling[r][1] # n
        BY <2>1, <2>2 DEF Ids, RowInv
      <3>2. \A x \in waiting' : Registered(x)' /\ response'[x] = NoAnswer
        BY <2>1, <2>2, <2>3, <3>1 DEF Ids, RowInv
      <3>3. \A r \in Sockets : pc'[r] = "store" =>
              /\ Registered(handling[r][1])'
              /\ handling'[r][1] \notin waiting'
              /\ response'[handling'[r][1]] = NoAnswer
        BY <1>0, <2>1, <2>3, <3>1 DEF Ids, RowInv
      <3>4. \A q, r \in Sockets :
              pc'[q] = "store" /\ pc'[r] = "store" /\ q # r
                => handling'[q][1] # handling'[r][1]
        BY <1>0, <2>1 DEF Ids, RowInv
      <3>5. \A x \in Execs : /\ response'[x] # NoAnswer => Registered(x)'
                             /\ Asked(x)' => Registered(x)' /\ Awaited(x)'
        BY <2>1, <2>3 DEF Ids, RowInv
      <3>6. ~Asked(n)' /\ Awaited(n)'
        BY <2>1, <2>4, <3>1 DEF Asked
      <3>. QED  BY <3>2, <3>3, <3>4, <3>5, <3>6 DEF RowInv
    <2>. QED  BY <2>1, <2>5 DEF Ids, SentAtMostOnce
  <1>. QED
    BY <1>1, <1>2, <1>3, <1>4, <1>5 DEF MainStep

\* Every step keeps the ids.
LEMMA IdsStep ==
  ASSUME TypeOK, PcInv, Ids, [Next]_vars
  PROVE  Ids'
  <1>1. CASE UNCHANGED vars
    BY <1>1, IdsFrame DEF vars, Unregistered, Sending
  <1>2. CASE Next
    BY <1>1, <1>2, MainIds, SocketIds DEF Next, Finished
  <1>. QED  BY <1>1, <1>2

-----------------------------------------------------------------------------
(***************************************************************************)
(* The columns, the invariant as a whole and what follows from it.         *)
(***************************************************************************)
USE EventControllerAssumption DEF Main, NoSock

(* The current execution and the error column *)

\* There is no row at the start.
LEMMA InitRows == Init => CurrentInv /\ WaitLeavesVerdict
  BY DEF Init, CurrentInv, WaitLeavesVerdict

\* current_test_execution_entity_id lags behind the newest row only while Main
\* prepares it.
LEMMA CurrentStep ==
  ASSUME TypeOK, PcInv, CurrentInv, [Next]_vars
  PROVE  CurrentInv'
  <1>. Main \in Threads
    BY MainNotSocket
  <1>1. CASE UNCHANGED vars \/ Finished
    BY <1>1 DEF vars, Finished, CurrentInv, Preparing
  <1>2. ASSUME NEW s \in Sockets, CallbackStep(s) \/ SocketEvent(s)
        PROVE  CurrentInv'
    <2>. s \in Threads /\ s # Main
      BY MainNotSocket
    <2>1. MovesOnly(s) /\ UNCHANGED <<n, current>>
      <3>1. CASE Reconnect(s)
        BY <3>1, ReconnectControl DEF rowVars
      <3>2. CASE SendBoot(s) \/ SendAnswer(s)
        BY <3>2, SocketSendType DEF rowVars
      <3>3. CASE ~Reconnect(s) /\ ~SendBoot(s) /\ ~SendAnswer(s)
        BY <1>2, <3>3
           DEF CallbackStep, SocketEvent, StoreResponse, ReportError,
           OnOpen, OnCall, OnResponse, SocketFails, OnClose, MovesOnly, Goto,
           CallReconnect, TypeOK, rowVars, pcVars
      <3>. QED  BY <3>1, <3>2, <3>3
    <2>2. pc'[Main] = pc[Main] /\ call'[Main] = call[Main]
      BY <2>1 DEF MovesOnly
    <2>. QED  BY <2>1, <2>2 DEF CurrentInv, Preparing
  <1>3. CASE Reconnect(Main)
    <2>1. /\ pc[Main] \in CallLabels /\ UNCHANGED <<n, current>>
          /\ \/ call'[Main] = call[Main]
             \/ \E b \in BOOLEAN : pc'[Main] = ReturnLabel(call[Main], b)
      BY <1>3, ReconnectControl DEF rowVars
    <2>2. call[Main] \in CallSites
      BY DEF TypeOK
    <2>3. Preparing => Preparing'
      BY <2>1, <2>2, ReturnLabelType DEF Preparing, CallLabels
    <2>. QED  BY <2>1, <2>3 DEF CurrentInv
  <1>4. CASE CreateRow
    <2>1. ~Preparing
      BY <1>4 DEF CreateRow, Preparing, PcInv, MainLabels
    <2>2. Preparing' /\ n' = n + 1 /\ current' = current
      BY <1>4 DEF CreateRow, Preparing, Goto, CallReconnect, TypeOK
    <2>. QED  BY <2>1, <2>2 DEF CurrentInv
  <1>5. CASE SetCurrent
    BY <1>5 DEF SetCurrent, CurrentInv
  <1>6. CASE \/ StartSet \/ CheckAgain \/ Register \/ Poll \/ CommitTimeout
             \/ EndCommand
    <2>1. pc[Main] # "cur" /\ call[Main] = "none" /\ UNCHANGED <<n, current>>
      BY <1>6 DEF StartSet, CheckAgain, Register, Poll, CommitTimeout,
         EndCommand, PcInv, MainLabels, rowVars
    <2>. QED  BY <2>1 DEF CurrentInv, Preparing
  <1>7. CASE MainSend
    <2>1. ~Unregistered /\ UNCHANGED <<n, current>>
      BY <1>7, MainSendType DEF rowVars
    <2>. QED  BY <2>1 DEF CurrentInv, Preparing, Unregistered
  <1>. QED
    BY <1>1, <1>2, <1>3, <1>4, <1>5, <1>6, <1>7 DEF Next, MainStep

\* Every step is a step of the execution log, or leaves the log alone. A
\* socket error goes to the current execution.
LEMMA LogStep ==
  ASSUME TypeOK, PcInv, Ids, CurrentInv, [Next]_vars
  PROVE  \/ UNCHANGED <<n, response, error>>
         \/ Log!Create
         \/ \E e \in Execs, a \in Answers : Log!Answer(e, a)
         \/ Log!Timeout
         \/ current \in Execs /\ Log!SocketError(current)
  <1>. Main \in Threads
    BY MainNotSocket
  <1>1. CASE UNCHANGED vars \/ Finished
    BY <1>1 DEF vars, Finished
  <1>2. ASSUME NEW s \in Sockets, StoreResponse(s)
        PROVE  \/ UNCHANGED <<n, response, error>>
               \/ \E e \in Execs, a \in Answers : Log!Answer(e, a)
    <2>1. /\ handling[s][1] \in Execs /\ handling[s][2] \in Answers
          /\ Registered(handling[s][1]) /\ response[handling[s][1]] = NoAnswer
      BY <1>2 DEF StoreResponse, PcInv, Ids, RowInv
    <2>2. handling[s][1] <= n
      BY <2>1 DEF Registered, TypeOK
    <2>3. \/ UNCHANGED <<n, response, error>>
          \/ Log!Answer(handling[s][1], handling[s][2])
      BY <1>2, <2>1, <2>2 DEF StoreResponse, Log!Answer, Log!NoAnswer, NoAnswer
    <2>. QED  BY <2>1, <2>3
  <1>3. ASSUME NEW s \in Sockets, ReportError(s)
        PROVE  \/ UNCHANGED <<n, response, error>>
               \/ current \in Execs /\ Log!SocketError(current)
    BY <1>3 DEF ReportError, Log!SocketError, CurrentInv, TypeOK, Execs
  <1>4. ASSUME NEW s \in Sockets,
               \/ Reconnect(s) \/ SendBoot(s) \/ SendAnswer(s) \/ SocketEvent(s)
        PROVE  UNCHANGED <<n, response, error>>
    <2>. s \in Threads
      BY MainNotSocket
    <2>1. CASE Reconnect(s)
      BY <2>1, ReconnectControl DEF rowVars
    <2>2. CASE SendBoot(s) \/ SendAnswer(s)
      BY <2>2, SocketSendType DEF rowVars
    <2>3. CASE SocketEvent(s)
      BY <2>3 DEF SocketEvent, OnOpen, OnCall, OnResponse, SocketFails, OnClose,
         rowVars
    <2>. QED  BY <1>4, <2>1, <2>2, <2>3
  <1>5. CASE CreateRow
    BY <1>5 DEF CreateRow, Log!Create
  <1>6. CASE CommitTimeout
    <2>1. n \in Execs
      BY <1>6 DEF CommitTimeout, PcInv
    <2>. QED  BY <1>6, <2>1 DEF CommitTimeout, Log!Timeout, Log!Execs, Execs
  <1>7. CASE \/ StartSet \/ SetCurrent \/ CheckAgain \/ Register \/ Poll
             \/ EndCommand
    BY <1>7 DEF StartSet, SetCurrent, CheckAgain, Register, Poll, EndCommand,
       rowVars
  <1>8. CASE Reconnect(Main) \/ MainSend
    BY <1>8, ReconnectControl, MainSendType DEF rowVars
  <1>. QED
    BY <1>1, <1>2, <1>3, <1>4, <1>5, <1>6, <1>7, <1>8
       DEF Next, MainStep, CallbackStep

\* A row whose wait is over keeps a response or an error name.
LEMMA VerdictStep ==
  ASSUME TypeOK, PcInv, Ids, CurrentInv, WaitLeavesVerdict, [Next]_vars
  PROVE  WaitLeavesVerdict'
  <1>1. \A e \in Execs : /\ response[e] # NoAnswer => response'[e] # NoAnswer
                         /\ error[e] # "none" => error'[e] # "none"
    <2>1. CASE UNCHANGED <<n, response, error>> \/ Log!Create
      BY <2>1 DEF Log!Create
    <2>2. CASE \E x \in Execs, a \in Answers : Log!Answer(x, a)
      BY <2>2 DEF Log!Answer, TypeOK
    <2>3. CASE Log!Timeout
      BY <2>3 DEF Log!Timeout, TypeOK
    <2>4. CASE current \in Execs /\ Log!SocketError(current)
      BY <2>4 DEF Log!SocketError, TypeOK
    <2>. QED  BY LogStep, <2>1, <2>2, <2>3, <2>4
  <1>2. \A e \in waited' \ waited : response'[e] # NoAnswer \/ error'[e] # "none"
    <2>1. CASE Poll
      BY <2>1 DEF Poll, rowVars
    <2>2. CASE CommitTimeout
      <3>1. n \in Execs
        BY <2>2 DEF CommitTimeout, PcInv
      <3>. QED  BY <2>2, <3>1 DEF CommitTimeout, TypeOK
    <2>3. CASE ~Poll /\ ~CommitTimeout
      <3>. Main \in Threads /\ Sockets \subseteq Threads
        BY MainNotSocket
      <3>1. CASE \E t \in Threads : Reconnect(t)
        BY <3>1, ReconnectControl DEF ghost
      <3>2. CASE MainSend \/ \E s \in Sockets : SendBoot(s) \/ SendAnswer(s)
        BY <3>2, MainSendType, SocketSendType DEF ghost
      <3>3. CASE UNCHANGED vars \/ Finished
        BY <3>3 DEF vars, Finished
      <3>4. CASE \/ StartSet \/ CreateRow \/ SetCurrent \/ CheckAgain
                 \/ Register \/ EndCommand
        BY <3>4 DEF StartSet, CreateRow, SetCurrent, CheckAgain, Register,
           EndCommand, ghost
      <3>5. CASE \E s \in Sockets :
                   StoreResponse(s) \/ ReportError(s) \/ SocketEvent(s)
        BY <3>5 DEF StoreResponse, ReportError, SocketEvent, OnOpen, OnCall,
           OnResponse, SocketFails, OnClose, ghost
      <3>. QED
        BY <2>3, <3>1, <3>2, <3>3, <3>4, <3>5 DEF Next, MainStep, CallbackStep
    <2>. QED  BY <2>1, <2>2, <2>3
  <1>3. waited \subseteq Execs
    BY DEF TypeOK
  <1>. QED  BY <1>1, <1>2, <1>3 DEF WaitLeavesVerdict

-----------------------------------------------------------------------------
(* The inductive invariant and what it yields *)

\* The inductive invariant holds at the start,
LEMMA IInvInit == Init => IInv
  BY InitType, InitIds, InitRows DEF IInv, Ids

\* and every step keeps it.
LEMMA IInvStep == IInv /\ [Next]_vars => IInv'
  <1> SUFFICES ASSUME IInv, [Next]_vars PROVE IInv'
    OBVIOUS
  <1>1. TypeOK /\ PcInv /\ Ids /\ CurrentInv /\ WaitLeavesVerdict
    BY DEF IInv, Ids
  <1>. QED  BY <1>1, TypeStep, IdsStep, CurrentStep, VerdictStep DEF IInv, Ids

\* The inductive invariant holds: ids travel from waiting_msg_ids through one
\* socket thread into their row.
THEOREM Invariant == Spec => []IInv
  BY IInvInit, IInvStep, PTL DEF Spec

\* Once the CSMS can answer a message, its id stays in waiting_msg_ids until
\* on_response_message takes the first answer.
THEOREM FirstAnswerIsAwaited == Spec => []AnswerIsAwaited
  <1>1. IInv => AnswerIsAwaited
    BY DEF IInv, RowInv, AnswerIsAwaited, Awaited
  <1>. QED  BY <1>1, Invariant, PTL

\* send_message with its reconnect and resend delivers a message at most once.
THEOREM AtMostOnceDelivery == Spec => []SentAtMostOnce
  <1>1. IInv => SentAtMostOnce
    BY DEF IInv
  <1>. QED  BY <1>1, Invariant, PTL

\* send_message_and_wait leaves a response or an error name in the row.
THEOREM VerdictAfterWait == Spec => []WaitLeavesVerdict
  <1>1. IInv => WaitLeavesVerdict
    BY DEF IInv
  <1>. QED  BY <1>1, Invariant, PTL

\* No later answer, from whichever socket, replaces a recorded response.
THEOREM ResponseWrittenOnce == Spec => FirstAnswerKept
  <1>1. IInv /\ [Next]_vars =>
          [\A e \in Execs : response[e] # NoAnswer
             => response'[e] = response[e]]_vars
    <2> SUFFICES ASSUME IInv, [Next]_vars, NEW e \in Execs,
                        response[e] # NoAnswer
                 PROVE  response'[e] = response[e]
      OBVIOUS
    <2>1. TypeOK /\ PcInv /\ Ids /\ CurrentInv
      BY DEF IInv, Ids
    <2>2. CASE \E x \in Execs, a \in Answers : Log!Answer(x, a)
      BY <2>1, <2>2 DEF Log!Answer, Log!NoAnswer, NoAnswer, TypeOK
    <2>3. CASE \/ UNCHANGED <<n, response, error>> \/ Log!Create \/ Log!Timeout
               \/ Log!SocketError(current)
      BY <2>3 DEF Log!Create, Log!Timeout, Log!SocketError
    <2>. QED  BY <2>1, <2>2, <2>3, LogStep
  <1>. QED  BY <1>1, Invariant, PTL DEF Spec, FirstAnswerKept

\* A socket error reported by on_error lands on the execution in progress, or
\* on the one before it while the manager still prepares the newer one.
THEOREM ErrorsOnRecentRows == Spec => ErrorOnRecentRow
  <1>1. IInv /\ [Next]_vars =>
          [\A e \in Execs : error'[e] # error[e] =>
             \/ e = n
             \/ e + 1 = n /\ error'[e] = "socket" /\ Preparing]_vars
    <2> SUFFICES ASSUME IInv, [Next]_vars, NEW e \in Execs,
                        error'[e] # error[e]
                 PROVE  \/ e = n
                        \/ e + 1 = n /\ error'[e] = "socket" /\ Preparing
      OBVIOUS
    <2>1. TypeOK /\ PcInv /\ Ids /\ CurrentInv
      BY DEF IInv, Ids
    <2>2. CASE \/ UNCHANGED <<n, response, error>> \/ Log!Create
               \/ \E x \in Execs, a \in Answers : Log!Answer(x, a)
      BY <2>2 DEF Log!Create, Log!Answer
    <2>3. CASE Log!Timeout
      BY <2>1, <2>3 DEF Log!Timeout, TypeOK
    <2>4. CASE current \in Execs /\ Log!SocketError(current)
      BY <2>1, <2>4 DEF Log!SocketError, TypeOK, CurrentInv
    <2>. QED  BY <2>1, <2>2, <2>3, <2>4, LogStep
  <1>. QED  BY <1>1, Invariant, PTL DEF Spec, ErrorOnRecentRow

\* EventController implements ExecutionLog: the table that the threads write
\* together behaves like the log that the analysis assumes.
THEOREM LogRefinement == Spec => ImplementsLog
  <1>1. Init => Log!Init
    BY DEF Init, Log!Init, Log!Execs, Execs, Log!NoAnswer, NoAnswer
  <1>2. IInv /\ [Next]_vars => [Log!Next]_(Log!logVars)
    <2> SUFFICES ASSUME IInv, [Next]_vars
                 PROVE  Log!Next \/ UNCHANGED Log!logVars
      OBVIOUS
    <2>1. TypeOK /\ PcInv /\ Ids /\ CurrentInv
      BY DEF IInv, Ids
    <2>2. Log!Execs = Execs
      BY DEF Log!Execs, Execs
    <2>. QED  BY <2>1, <2>2, LogStep DEF Log!Next, Log!logVars
  <1>. QED  BY <1>1, <1>2, Invariant, PTL DEF Spec, ImplementsLog, Log!Spec

=============================================================================
