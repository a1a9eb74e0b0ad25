--------------------------- MODULE EventController ---------------------------
(***************************************************************************)
(* One ProjectEventController (the WebSocket client that plays a charging  *)
(* station against one CSMS) driven by the TestControllerManager.          *)
(*                                                                         *)
(* Threads: Main is the asyncio thread that runs the manager's test loop;  *)
(* every WebSocketApp s has its own run_forever thread, which runs the     *)
(* callbacks on_open, on_message, on_error and on_close of that socket.    *)
(* All of them share the attributes ws, connected and waiting_msg_ids of   *)
(* the controller, without a lock, and the test_execution table.           *)
(*                                                                         *)
(* A thread's program counter pc[t] names the statement it executes next.  *)
(* reconnect() is called from eight places; call[t] names the one that     *)
(* thread t is to return to.                                               *)
(***************************************************************************)
EXTENDS Naturals, FiniteSets

CONSTANTS
  NExec,      \* number of test executions (rows of test_execution) of a command
  NSock,      \* bound: WebSocketApp objects created in a behaviour
  MaxRetry,   \* on_error's max_retry (5 in the code)
  Commands,   \* the test loops of the manager a command can ask for
  SetStart,   \* executions that open a new detail set (of the scenario test)
  Answers     \* kinds of OCPP answer a CSMS gives (CALLRESULT 3, CALLERROR 4)

NoAnswer == "none"

ASSUME EventControllerAssumption ==
  /\ NExec \in Nat /\ NSock \in Nat /\ MaxRetry \in Nat
  /\ Commands \subseteq {"random", "rule", "scenario"}
  /\ SetStart \subseteq 1..NExec
  /\ NoAnswer \notin Answers

Execs == 1..NExec
Sockets == 1..NSock
Main == 0
Threads == {Main} \cup Sockets
NoSock == 0

VARIABLES
  ws,         \* self.ws, NoSock for None
  connected,  \* self.connected
  sock,       \* state of every WebSocketApp
  pc,         \* the statement a thread executes next
  call,       \* the call site of the reconnect() a thread is in
  command,    \* command_message.command: the test loop that Main runs
  retries,    \* retry_cnt of a socket thread inside on_error
  handling,   \* <<execution, answer>> a socket thread is about to store
  waiting,    \* self.waiting_msg_ids
  n,          \* number of execution rows created so far
  fresh,      \* the detail set of row n + 1 has been connected already
  current,    \* current_test_execution_entity_id, 0 for None
  response,   \* column response of every row
  error,      \* column error_name of every row
  asked,      \* <<s, e>>: the CSMS has received message e over socket s
  waited,     \* history: rows whose send_message_and_wait ran to its end
  lost        \* history: rows whose response was rolled back

connVars == <<ws, connected, sock>>
pcVars == <<pc, call, command, retries>>
rowVars == <<n, fresh, current, response, error>>
ghost == <<waited, lost>>
vars == <<ws, connected, sock, pc, call, command, retries, handling,
          waiting, n, fresh, current, response, error, asked, waited, lost>>

SockStates == {"free", "opening", "open", "closing", "failed", "closed"}
Errors == {"none", "Timeout 10", "socket"}
MainLabels == {"next", "cur", "chk2", "register", "send", "resend", "wait",
               "expired", "done"}
SockLabels == {"idle", "boot", "boot_resend", "answer", "answer_resend",
               "store", "err_report"}
CallLabels == {"rc_close", "rc_register", "rc_wait"}
CallSites == {"none", "start", "set", "row", "again", "send", "boot", "answer",
              "error"}

\* Type invariant: every attribute, column and program counter has its type.
TypeOK ==
  /\ ws \in Sockets \cup {NoSock}
  /\ connected \in BOOLEAN
  /\ sock \in [Sockets -> SockStates]
  /\ pc \in [Threads -> MainLabels \cup SockLabels \cup CallLabels]
  /\ call \in [Threads -> CallSites]
  /\ command \in Commands
  /\ retries \in [Threads -> 0..MaxRetry]
  /\ handling \in [Sockets -> (Execs \X Answers) \cup {<<0, NoAnswer>>}]
  /\ waiting \subseteq Execs
  /\ n \in 0..NExec
  /\ fresh \in BOOLEAN
  /\ current \in 0..NExec
  /\ response \in [Execs -> Answers \cup {NoAnswer}]
  /\ error \in [Execs -> Errors]
  /\ asked \subseteq Sockets \X Execs
  /\ waited \subseteq Execs
  /\ lost \subseteq Execs

\* The manager has built the controller and calls its first connect(): there
\* is no socket yet, the class attribute connected is False.  The first command
\* decides which test loop Main runs once it is connected.
Init ==
  /\ ws = NoSock
  /\ connected = FALSE
  /\ sock = [s \in Sockets |-> "free"]
  /\ pc = [t \in Threads |-> IF t = Main THEN "rc_close" ELSE "idle"]
  /\ call = [t \in Threads |-> IF t = Main THEN "start" ELSE "none"]
  /\ command \in Commands
  /\ retries = [t \in Threads |-> 0]
  /\ handling = [s \in Sockets |-> <<0, NoAnswer>>]
  /\ waiting = {}
  /\ n = 0
  /\ fresh = FALSE
  /\ current = 0
  /\ response = [e \in Execs |-> NoAnswer]
  /\ error = [e \in Execs |-> "none"]
  /\ asked = {}
  /\ waited = {}
  /\ lost = {}

Goto(t, l) == pc' = [pc EXCEPT ![t] = l] /\ UNCHANGED <<call, command, retries>>

CallReconnect(t, site) ==
  /\ pc' = [pc EXCEPT ![t] = "rc_close"]
  /\ call' = [call EXCEPT ![t] = site]
  /\ UNCHANGED <<command, retries>>

\* Where a thread goes on when the reconnect() of a call site returned b.
\* get_project_event_controller_list drops a controller whose first connect()
\* failed; the other callers but on_error's ignore the result.
ReturnLabel(site, b) ==
  CASE site = "start" -> IF b THEN "next" ELSE "done"
    [] site = "set"   -> "next"
    [] site = "row"   -> "cur"
    [] site = "again" -> "chk2"
    [] site = "send"  -> "resend"
    [] site = "boot"  -> "boot_resend"
    [] site = "answer" -> "answer_resend"
    [] OTHER          -> "idle"

\* on_error's loop: while retry_cnt < max_retry, until a reconnect succeeds.
TryAgain(t, b) == call[t] = "error" /\ ~b /\ retries[t] + 1 < MaxRetry

\* Mutant of Return: retry_cnt is not incremented.
ReturnUncounted(t, b) ==
  /\ IF TryAgain(t, b)
       THEN /\ pc' = [pc EXCEPT ![t] = "rc_close"]
            /\ UNCHANGED call
       ELSE /\ pc' = [pc EXCEPT ![t] = ReturnLabel(call[t], b)]
            /\ call' = [call EXCEPT ![t] = "none"]
  /\ UNCHANGED <<command, retries>>

Return(t, b) ==
  /\ IF TryAgain(t, b)
       THEN /\ pc' = [pc EXCEPT ![t] = "rc_close"]
            /\ retries' = [retries EXCEPT ![t] = @ + 1]
            /\ UNCHANGED call
       ELSE /\ pc' = [pc EXCEPT ![t] = ReturnLabel(call[t], b)]
            /\ retries' = [retries EXCEPT ![t] = 0]
            /\ call' = [call EXCEPT ![t] = "none"]
  /\ UNCHANGED command

-----------------------------------------------------------------------------
(* reconnect() and connect(), run by any thread *)

\* What ws.close() makes of a socket: it has no effect while run_forever has
\* not begun its handshake, or once the socket is closed.
ClosedTo(state) ==
  CASE state = "open" -> {"closing"}
    [] state = "opening" -> {"closing", "opening"}
    [] OTHER -> {state}

WsOpen == ws # NoSock /\ sock[ws] = "open"
FreeSock == {s \in Sockets : sock[s] = "free"}

\* reconnect up to connect(). The close thread joins in time, or is_alive()
\* holds after 5 seconds and self.ws is dropped while the old socket stays as
\* it is for now. Once the bound NSock is used up connect() fails at once.
ReconnectClose(t) ==
  /\ pc[t] = "rc_close"
  /\ \/ /\ ws = NoSock
        /\ UNCHANGED connVars
     \/ /\ ws # NoSock
        /\ \E c \in ClosedTo(sock[ws]) : sock' = [sock EXCEPT ![ws] = c]
        /\ UNCHANGED <<ws, connected>>
     \/ /\ ws # NoSock
        /\ ws' = NoSock
        /\ UNCHANGED <<connected, sock>>
  /\ IF FreeSock = {} THEN Return(t, FALSE) ELSE Goto(t, "rc_register")
  /\ UNCHANGED <<handling, waiting, rowVars, asked, ghost>>

\* connect() from the return of register_charging_station_info, an HTTP
\* request without a timeout that the CSMS need never answer. False: connect
\* returns False and self.ws is still the old socket. True: self.ws =
\* WebSocketApp(...) and its thread starts; connected is not reset.
ConnectNew(t) ==
  /\ pc[t] = "rc_register"
  /\ \/ /\ Return(t, FALSE)
        /\ UNCHANGED connVars
     \/ \E s \in FreeSock :
          /\ \A r \in FreeSock : s <= r
          /\ ws' = s
          /\ sock' = [sock EXCEPT ![s] = "opening"]
          /\ UNCHANGED connected
          /\ Goto(t, "rc_wait")
  /\ UNCHANGED <<handling, waiting, rowVars, asked, ghost>>

\* while not self.connected and timeout > 0; return self.connected: True may
\* come from an earlier socket, False when the timeout has run out.
ConnectWait(t) ==
  /\ pc[t] = "rc_wait"
  /\ Return(t, connected)
  /\ UNCHANGED <<connVars, handling, waiting, rowVars, asked, ghost>>

Reconnect(t) == ReconnectClose(t) \/ ConnectNew(t) \/ ConnectWait(t)

-----------------------------------------------------------------------------
(* send_message(), run by Main (an execution) or a socket (BootNotification) *)

\* Mutant of SendMessage: reconnect and resend although the send succeeded.
SendMessageTwice(t, at, site, after, exc, msgs) ==
  /\ pc[t] = at
  /\ \/ /\ ws = NoSock \/ ~connected
        /\ Goto(t, after)
        /\ UNCHANGED asked
     \/ /\ connected /\ ws # NoSock
        /\ asked' = asked \cup ({ws} \X msgs)
        /\ CallReconnect(t, site)
  /\ UNCHANGED <<connVars, handling, waiting, rowVars, ghost>>

\* The message is dropped silently unless self.ws and self.connected. ws.send
\* delivers it on an open socket, loses it during the handshake, and raises
\* WebSocketConnectionClosedException on a socket that is not open, which
\* leads to reconnect(self.CS_NAME). Another thread inside reconnect can set
\* self.ws to None between the test and the send: AttributeError, not caught.
SendMessage(t, at, site, after, exc, msgs) ==
  /\ pc[t] = at
  /\ \/ /\ ws = NoSock \/ ~connected
        /\ Goto(t, after)
        /\ UNCHANGED asked
     \/ /\ connected /\ WsOpen
        /\ asked' = asked \cup ({ws} \X msgs)
        /\ Goto(t, after)
     \/ /\ connected /\ ws # NoSock /\ sock[ws] = "opening"
        /\ Goto(t, after)
        /\ UNCHANGED asked
     \/ /\ connected /\ ws # NoSock /\ ~WsOpen
        /\ CallReconnect(t, site)
        /\ UNCHANGED asked
     \/ /\ connected /\ ws # NoSock
        /\ \E u \in Threads \ {t} : pc[u] = "rc_close"
        /\ Goto(t, exc)
        /\ UNCHANGED asked
  /\ UNCHANGED <<connVars, handling, waiting, rowVars, ghost>>

\* The send after the reconnect is not guarded: it raises unless self.ws is
\* an open socket (or one in its handshake).
SendAgain(t, at, after, exc, msgs) ==
  /\ pc[t] = at
  /\ \/ /\ WsOpen
        /\ asked' = asked \cup ({ws} \X msgs)
        /\ Goto(t, after)
     \/ /\ ws # NoSock /\ sock[ws] = "opening"
        /\ Goto(t, after)
        /\ UNCHANGED asked
     \/ /\ ~WsOpen
        /\ Goto(t, exc)
        /\ UNCHANGED asked
  /\ UNCHANGED <<connVars, handling, waiting, rowVars, ghost>>

-----------------------------------------------------------------------------
(* Main: the test loops of TestControllerManager and send_message_and_wait *)

\* An exception out of send_message_and_wait ends random_generation_test; the
\* other two loops catch it and go on with the next execution.
OnException == IF command = "random" THEN "done" ELSE "next"

\* A detail set of the scenario test starts with reconnect(SCENARIO_id).
StartSet ==
  /\ pc[Main] = "next" /\ command = "scenario"
  /\ n < NExec /\ n + 1 \in SetStart /\ ~fresh
  /\ fresh' = TRUE
  /\ CallReconnect(Main, "set")
  /\ UNCHANGED <<connVars, handling, waiting, n, current, response, error,
                 asked, ghost>>

\* session.add(test_execution_entity); session.commit(). The random loops then
\* reconnect under a name of their own before they set the current execution.
CreateRow ==
  /\ pc[Main] = "next" /\ n < NExec
  /\ command = "scenario" => fresh \/ n + 1 \notin SetStart
  /\ n' = n + 1
  /\ fresh' = FALSE
  /\ IF command = "scenario" THEN Goto(Main, "cur") ELSE CallReconnect(Main, "row")
  /\ UNCHANGED <<connVars, handling, waiting, current, response, error, asked,
                 ghost>>

\* Mutant of SetCurrent: the current execution is only set once.
SetCurrentOnce ==
  /\ pc[Main] = "cur"
  /\ current' = IF current = 0 THEN n ELSE current
  /\ Goto(Main, IF connected THEN "register" ELSE "next")
  /\ UNCHANGED <<connVars, handling, waiting, n, fresh, response, error, asked,
                 ghost>>

\* current_test_execution_entity_id = id; then, if not connected, the scenario
\* test reconnects once and the others skip the execution.
SetCurrent ==
  /\ pc[Main] = "cur"
  /\ current' = n
  /\ \/ connected /\ Goto(Main, "register")
     \/ ~connected /\ command # "scenario" /\ Goto(Main, "next")
     \/ ~connected /\ command = "scenario" /\ CallReconnect(Main, "again")
  /\ UNCHANGED <<connVars, handling, waiting, n, fresh, response, error, asked,
                 ghost>>

CheckAgain ==
  /\ pc[Main] = "chk2"
  /\ Goto(Main, IF connected THEN "register" ELSE "next")
  /\ UNCHANGED <<connVars, handling, waiting, rowVars, asked, ghost>>

\* Mutant of Register: the id is not added.
RegisterNothing ==
  /\ pc[Main] = "register"
  /\ Goto(Main, "send")
  /\ UNCHANGED <<connVars, handling, waiting, rowVars, asked, ghost>>

\* self.waiting_msg_ids.add(msg_id), before the message is sent.
Register ==
  /\ pc[Main] = "register"
  /\ waiting' = waiting \cup {n}
  /\ Goto(Main, "send")
  /\ UNCHANGED <<connVars, handling, rowVars, asked, ghost>>

MainSend ==
  \/ SendMessage(Main, "send", "send", "wait", OnException, {n})
  \/ SendAgain(Main, "resend", "wait", OnException, {n})


\* The polling loop: a poll that finds the response ends it; after the 50th
\* poll without one the wait has expired.
Poll ==
  /\ pc[Main] = "wait"
  /\ IF response[n] # NoAnswer
       THEN waited' = waited \cup {n} /\ Goto(Main, "next")
       ELSE UNCHANGED waited /\ Goto(Main, "expired")
  /\ UNCHANGED <<connVars, handling, waiting, rowVars, asked, lost>>

\* entity.error_name = "Timeout 10"; the id stays in waiting_msg_ids.
CommitTimeout ==
  /\ pc[Main] = "expired"
  /\ error' = [error EXCEPT ![n] = "Timeout 10"]
  /\ waited' = waited \cup {n}
  /\ Goto(Main, "next")
  /\ UNCHANGED <<connVars, handling, waiting, n, fresh, current, response,
                 asked, lost>>

EndCommand ==
  /\ pc[Main] = "next" /\ n = NExec
  /\ Goto(Main, "done")
  /\ UNCHANGED <<connVars, handling, waiting, rowVars, asked, ghost>>

MainStep ==
  \/ StartSet \/ CreateRow \/ SetCurrent \/ CheckAgain \/ Register
  \/ MainSend \/ Poll \/ CommitTimeout \/ EndCommand \/ Reconnect(Main)

-----------------------------------------------------------------------------
(* The thread of socket s: the callbacks, and what WebSocketApp does *)

\* The handshake ends and on_open runs: connected = True, whatever self.ws is
\* by now; then a BootNotification, whose id is never waited for.
OnOpen(s) ==
  /\ pc[s] = "idle" /\ sock[s] = "opening"
  /\ sock' = [sock EXCEPT ![s] = "open"]
  /\ connected' = TRUE
  /\ Goto(s, "boot")
  /\ UNCHANGED <<ws, handling, waiting, rowVars, asked, ghost>>

\* An exception out of a callback is handed to on_error by the library.
SendBoot(s) ==
  \/ SendMessage(s, "boot", "boot", "idle", "err_report", {})
  \/ SendAgain(s, "boot_resend", "idle", "err_report", {})

\* on_call_message (TriggerMatching has its details): a CALL that no trigger
\* waits for is answered over self.ws, which need not be s, and an exception
\* of that send is caught in the callback. The commit at the end of the
\* database session is not guarded: its exception reaches on_error.
OnCall(s) ==
  /\ pc[s] = "idle" /\ sock[s] = "open"
  /\ Goto(s, "answer") \/ Goto(s, "err_report")
  /\ UNCHANGED <<connVars, handling, waiting, rowVars, asked, ghost>>

SendAnswer(s) ==
  \/ SendMessage(s, "answer", "answer", "idle", "idle", {})
  \/ SendAgain(s, "answer_resend", "idle", "idle", {})

\* on_response_message, the part before the database: an id that is not
\* waited for (a second answer, a BootNotification's) changes nothing.
OnResponse(s) ==
  /\ pc[s] = "idle" /\ sock[s] = "open"
  /\ \E e \in Execs, a \in Answers :
       /\ <<s, e>> \in asked
       /\ e \in waiting
       /\ waiting' = waiting \ {e}
       /\ handling' = [handling EXCEPT ![s] = <<e, a>>]
  /\ Goto(s, "store")
  /\ UNCHANGED <<connVars, rowVars, asked, ghost>>

\* Mutant of StoreResponse: a late response clears the error of its row.
StoreResponseClearsError(s) ==
  /\ pc[s] = "store"
  /\ \/ /\ response' = [response EXCEPT ![handling[s][1]] = handling[s][2]]
        /\ error' = [error EXCEPT ![handling[s][1]] = "none"]
        /\ UNCHANGED lost
     \/ /\ lost' = lost \cup {handling[s][1]}
        /\ UNCHANGED <<response, error>>
  /\ handling' = [handling EXCEPT ![s] = <<0, NoAnswer>>]
  /\ Goto(s, "idle")
  /\ UNCHANGED <<connVars, waiting, n, fresh, current, asked, waited>>

\* The row of that message gets the response, or the commit fails and is
\* rolled back; the id has left waiting_msg_ids in either case.
StoreResponse(s) ==
  /\ pc[s] = "store"
  /\ \/ /\ response' = [response EXCEPT ![handling[s][1]] = handling[s][2]]
        /\ UNCHANGED lost
     \/ /\ lost' = lost \cup {handling[s][1]}
        /\ UNCHANGED response
  /\ handling' = [handling EXCEPT ![s] = <<0, NoAnswer>>]
  /\ Goto(s, "idle")
  /\ UNCHANGED <<connVars, waiting, n, fresh, current, error, asked, waited>>

\* The connection fails, is refused, or is closed by the peer or by a
\* reconnect: on_error runs when there is an exception, before on_close.
SocketFails(s) ==
  /\ pc[s] = "idle"
  /\ \/ /\ sock[s] \in {"opening", "open", "closing"}
        /\ sock' = [sock EXCEPT ![s] = "failed"]
        /\ Goto(s, "err_report")
     \/ /\ sock[s] = "open"
        /\ sock' = [sock EXCEPT ![s] = "closing"]
        /\ UNCHANGED pcVars
  /\ UNCHANGED <<ws, connected, handling, waiting, rowVars, asked, ghost>>

\* on_close of socket s clears the flag that the sockets share.
OnClose(s) ==
  /\ pc[s] = "idle" /\ sock[s] \in {"closing", "failed"}
  /\ sock' = [sock EXCEPT ![s] = "closed"]
  /\ connected' = FALSE
  /\ UNCHANGED <<ws, pcVars, handling, waiting, rowVars, asked, ghost>>

\* on_error: report_error writes to the row that is current now, if there is
\* one (its commit may fail); then the loop of reconnect(RECONNECT_<ms>).
ReportError(s) ==
  /\ pc[s] = "err_report"
  /\ \/ current # 0 /\ error' = [error EXCEPT ![current] = "socket"]
     \/ UNCHANGED error
  /\ IF MaxRetry > 0 THEN CallReconnect(s, "error") ELSE Goto(s, "idle")
  /\ UNCHANGED <<connVars, handling, waiting, n, fresh, current, response,
                 asked, ghost>>

\* What a socket thread does by itself once a callback has begun.
CallbackStep(s) ==
  SendBoot(s) \/ SendAnswer(s) \/ StoreResponse(s) \/ ReportError(s) \/ Reconnect(s)

\* What the network and the CSMS make happen on socket s.
SocketEvent(s) ==
  OnOpen(s) \/ OnCall(s) \/ OnResponse(s) \/ SocketFails(s) \/ OnClose(s)

\* The command is over; the listener waits for the next one.
Finished == pc[Main] = "done" /\ UNCHANGED vars

Next ==
  \/ MainStep
  \/ \E s \in Sockets : CallbackStep(s) \/ SocketEvent(s)
  \/ Finished

Spec == Init /\ [][Next]_vars

\* Thread t waits for the answer to its registration request, a wait without
\* a bound.
Registering(t) == pc[t] = "rc_register"

\* Threads are scheduled: Main and a socket thread inside a callback keep
\* running. Every other wait in them is a counted loop or has a timeout; that
\* a database call and the write of a frame to a socket return is assumed.
\* The network and the CSMS owe nothing, the answer to a registration included.
Fairness ==
  /\ WF_vars(~Registering(Main) /\ MainStep)
  /\ \A s \in Sockets : WF_vars(~Registering(s) /\ CallbackStep(s))

FairSpec == Spec /\ Fairness

-----------------------------------------------------------------------------
(* Properties *)

Asked(e) == \E s \in Sockets : <<s, e>> \in asked
InHand(e) == \E s \in Sockets : pc[s] = "store" /\ handling[s][1] = e

\* on_response_message records the first answer to a message and no later one
\* replaces it, even if the CSMS answers twice and differently, or late, after
\* the row was given up with "Timeout 10".
FirstAnswerKept ==
  [][\A e \in Execs : response[e] # NoAnswer => response'[e] = response[e]]_vars

\* Once the CSMS can answer a message, its id is in waiting_msg_ids until the
\* first answer is taken: no first answer is thrown away as "not exist
\* entity", however fast or late it comes.
AnswerIsAwaited ==
  \A e \in Execs :
    Asked(e) => \/ e \in waiting \/ InHand(e)
                \/ response[e] # NoAnswer \/ e \in lost

\* An execution that send_message_and_wait has finished with has a verdict in
\* the table, a response or an error name, whatever the sockets did meanwhile.
WaitLeavesVerdict ==
  \A e \in waited : response[e] # NoAnswer \/ error[e] # "none"

\* The resend after a reconnect never puts a message on the wire twice.
SentAtMostOnce ==
  \A e \in Execs, r, s \in Sockets :
    <<r, e>> \in asked /\ <<s, e>> \in asked => r = s

\* Row n exists and its id has not been registered yet.
Unregistered ==
  pc[Main] \in {"cur", "chk2", "register"} \/ call[Main] \in {"row", "again"}

\* The id of row n is registered and its message is not known to be sent yet.
Sending == pc[Main] \in {"send", "resend"} \/ call[Main] = "send"

Registered(e) == e \in 1..n /\ (e = n => ~Unregistered)
Awaited(e) == e \in waiting \/ InHand(e) \/ response[e] # NoAnswer \/ e \in lost

\* Main has created row n and not yet made it the current execution.
Preparing == pc[Main] = "cur" \/ call[Main] = "row"

\* error_name is only ever written on the newest row or, by a socket error
\* that strikes before the manager has set the current execution, on the one
\* before it: a socket error is off by at most one execution, and only while
\* the manager still prepares the newer one.
ErrorOnRecentRow ==
  [][\A e \in Execs : error'[e] # error[e] =>
       \/ e = n
       \/ e + 1 = n /\ error'[e] = "socket" /\ Preparing]_vars

\* The rows that the threads write are an execution log: one row after the
\* other, every response written once, errors on the two newest rows.
Log == INSTANCE ExecutionLog WITH
         NExec <- NExec, Answers <- Answers, n <- n, response <- response, error <- error
ImplementsLog == Log!Spec

\* Control: which labels and call sites Main and the socket threads can be at,
\* and that a row exists while Main is busy with one.
PcInv ==
  /\ pc[Main] \in MainLabels \cup CallLabels
  /\ call[Main] \in {"none", "start", "set", "row", "again", "send"}
  /\ call[Main] = "none" <=> pc[Main] \in MainLabels
  /\ \A s \in Sockets :
       /\ pc[s] \in SockLabels \cup CallLabels
       /\ call[s] \in {"none", "boot", "answer", "error"}
       /\ call[s] = "none" <=> pc[s] \in SockLabels
       /\ pc[s] = "store" => handling[s] \in Execs \X Answers
  /\ Unregistered \/ Sending \/ pc[Main] \in {"wait", "expired"} => n \in Execs

\* Data: an id is in waiting_msg_ids or in the hands of at most one socket
\* thread, and only between its registration and its response.
RowInv ==
  /\ \A e \in waiting : Registered(e) /\ response[e] = NoAnswer
  /\ \A s \in Sockets : pc[s] = "store" =>
       /\ Registered(handling[s][1])
       /\ handling[s][1] \notin waiting
       /\ response[handling[s][1]] = NoAnswer
  /\ \A r, s \in Sockets :
       pc[r] = "store" /\ pc[s] = "store" /\ r # s
         => handling[r][1] # handling[s][1]
  /\ \A e \in Execs : response[e] # NoAnswer => Registered(e)
  /\ \A e \in Execs : Asked(e) => Registered(e) /\ Awaited(e)
  /\ Sending => ~Asked(n) /\ Awaited(n)

\* The current execution lags one row behind while Main prepares row n.
CurrentInv == current = n \/ (current + 1 = n /\ Preparing)

\* The inductive invariant behind the safety properties: an id travels from
\* waiting_msg_ids through the hands of one socket thread into its row, and
\* the manager's current execution keeps up with the rows.
IInv ==
  /\ TypeOK /\ PcInv /\ RowInv /\ CurrentInv
  /\ SentAtMostOnce /\ WaitLeavesVerdict


\* A socket thread inside on_error gets out of it after at most max_retry
\* reconnects and can run on_close, unless one of these reconnects hangs in a
\* registration request that is never answered.
ErrorHandled ==
  \A s \in Sockets :
    pc[s] = "err_report" ~> (pc[s] = "idle" \/ []Registering(s))

=============================================================================
