--------------------------- MODULE TriggerMatching ---------------------------
(***************************************************************************)
(* CALLs from the CSMS to the charging station: send_trigger_and_wait asks *)
(* the CSMS, through its own API, to send one and waits for it to show up  *)
(* in its send_trigger row; on_call_message, in the thread of the socket   *)
(* that received the CALL, hands it to the newest open row of its action   *)
(* or answers it at once.  The two sides meet only in the database, and    *)
(* on_call_message queries and commits in two steps.                       *)
(***************************************************************************)
EXTENDS Naturals, Sequences

CONSTANTS
  Actions,    \* OCPP actions a CSMS can be asked to call
  SetVariables, \* the one whose variables are stored on arrival
  NItem,      \* variables in a SetVariables CALL
  Sockets,    \* socket threads that are alive at the same time
  NTrigger,   \* bound: send_trigger rows
  NCall       \* bound: CALLs made by the CSMS

ASSUME TriggerMatchingAssumption ==
  NTrigger \in Nat /\ NCall \in Nat /\ NItem \in Nat

Calls == 1..NCall
NoCall == 0
NoTrigger == 0

VARIABLES
  row,      \* the send_trigger rows: [action, request], request NoCall for NULL
  mpc,      \* Main: "next", "ask" (the API request) or "poll"
  result,   \* per row: "none", "received", "timeout" or "refused"
  made,     \* the CALLs made so far: [action, socket]
  inbox,    \* CALLs on their way over every socket
  task,     \* per socket thread: [call, trigger, at]
  stored,   \* per CALL: variables committed for it
  fate      \* per CALL: "none", "matched", "answered", "failed" or "unread"

vars == <<row, mpc, result, made, inbox, task, stored, fate>>

Idle == [call |-> NoCall, trigger |-> NoTrigger, at |-> "idle"]

Init ==
  /\ row = <<>>
  /\ mpc = "next"
  /\ result = <<>>
  /\ made = <<>>
  /\ inbox = [s \in Sockets |-> <<>>]
  /\ task = [s \in Sockets |-> Idle]
  /\ stored = [c \in Calls |-> 0]
  /\ fate = [c \in Calls |-> "none"]

-----------------------------------------------------------------------------
(* Main: send_trigger_and_wait *)

Newest == Len(row)

\* The row is committed before the CSMS is asked.
CreateTrigger ==
  /\ mpc = "next" /\ Len(row) < NTrigger
  /\ \E a \in Actions :
       row' = Append(row, [action |-> a, request |-> NoCall])
  /\ result' = Append(result, "none")
  /\ mpc' = "ask"
  /\ UNCHANGED <<made, inbox, task, stored, fate>>

\* send_message_end_point: the API accepts the request, or it does not know
\* the message or fails, and the row stays as it is.
AskCsms ==
  /\ mpc = "ask"
  /\ \/ mpc' = "poll" /\ UNCHANGED result
     \/ mpc' = "next" /\ result' = [result EXCEPT ![Newest] = "refused"]
  /\ UNCHANGED <<row, made, inbox, task, stored, fate>>

\* A poll sees the row's request, or the last of the 20 polls does not.
PollTrigger ==
  /\ mpc = "poll"
  /\ mpc' = "next"
  /\ result' = [result EXCEPT ![Newest] =
                  IF row[Newest].request # NoCall THEN "received" ELSE "timeout"]
  /\ UNCHANGED <<row, made, inbox, task, stored, fate>>

-----------------------------------------------------------------------------
(* The CSMS makes a CALL, asked to or not, on a connection of its choice. *)

CsmsCall(s) ==
  /\ Len(made) < NCall
  /\ \E a \in Actions : made' = Append(made, [action |-> a, socket |-> s])
  /\ inbox' = [inbox EXCEPT ![s] = Append(@, Len(made'))]
  /\ UNCHANGED <<row, mpc, result, task, stored, fate>>

\* reconnect() closes the connection, or the peer does: the CALLs that its
\* thread has not read are lost. The thread finishes the handler it is in; s
\* then stands for the connection that comes next.
ConnectionCloses(s) ==
  /\ inbox[s] # <<>>
  /\ inbox' = [inbox EXCEPT ![s] = <<>>]
  /\ fate' = [c \in Calls |-> IF \E k \in 1..Len(inbox[s]) : inbox[s][k] = c
                               THEN "unread" ELSE fate[c]]
  /\ UNCHANGED <<row, mpc, result, made, task, stored>>

-----------------------------------------------------------------------------
(* on_call_message in the thread of socket s *)

Finish(s, f) ==
  /\ task' = [task EXCEPT ![s] = Idle]
  /\ fate' = [fate EXCEPT ![task[s].call] = f]

Wanted(c) == IF made[c].action = SetVariables THEN NItem ELSE 0

\* Mutant of AfterStore: the loop stops one variable early.
AfterStoreShort(c, k) == IF k + 1 < Wanted(c) THEN "store" ELSE "query"

\* Where the handler is when k variables of CALL c are stored.
AfterStore(c, k) == IF k < Wanted(c) THEN "store" ELSE "query"

\* Mutant of ReceiveCall: the CALL is read and not handled.
ReceiveAndDrop(s) ==
  /\ task[s] = Idle /\ inbox[s] # <<>>
  /\ inbox' = [inbox EXCEPT ![s] = Tail(@)]
  /\ UNCHANGED <<row, mpc, result, made, task, stored, fate>>

\* on_message parses the CALL and calls on_call_message.
ReceiveCall(s) ==
  /\ task[s] = Idle /\ inbox[s] # <<>>
  /\ task' = [task EXCEPT ![s] = [Idle EXCEPT !.call = Head(inbox[s]),
                                              !.at = AfterStore(Head(inbox[s]), 0)]]
  /\ inbox' = [inbox EXCEPT ![s] = Tail(@)]
  /\ UNCHANGED <<row, mpc, result, made, stored, fate>>

\* Every variable of a SetVariables CALL is committed by itself; one that
\* fails ends the handler and leaves the earlier ones stored.
StoreVariable(s) ==
  /\ task[s].at = "store"
  /\ LET c == task[s].call
     IN \/ /\ stored' = [stored EXCEPT ![c] = @ + 1]
           /\ task' = [task EXCEPT ![s].at = AfterStore(c, stored'[c])]
           /\ UNCHANGED fate
        \/ /\ Finish(s, "failed")
           /\ UNCHANGED stored
  /\ UNCHANGED <<row, mpc, result, made, inbox>>

\* The open rows of an action, and the newest of them.
Open(a) == {t \in 1..Len(row) : row[t].action = a /\ row[t].request = NoCall}
NewestOpen(a) == CHOOSE t \in Open(a) : \A u \in Open(a) : u <= t

\* Mutant of QueryTrigger: rows that have their request are not filtered out.
QueryAnyTrigger(s) ==
  /\ task[s].at = "query"
  /\ LET a == made[task[s].call].action
         any == {t \in 1..Len(row) : row[t].action = a}
     IN task' = [task EXCEPT ![s] =
          IF any # {}
            THEN [@ EXCEPT !.at = "commit",
                           !.trigger = CHOOSE t \in any : \A u \in any : u <= t]
            ELSE [@ EXCEPT !.at = "reply"]]
  /\ UNCHANGED <<row, mpc, result, made, inbox, stored, fate>>

\* order_by(desc(created_at)).first() over the rows without a request.
QueryTrigger(s) ==
  /\ task[s].at = "query"
  /\ LET a == made[task[s].call].action
     IN task' = [task EXCEPT ![s] =
          IF Open(a) # {} THEN [@ EXCEPT !.at = "commit", !.trigger = NewestOpen(a)]
                          ELSE [@ EXCEPT !.at = "reply"]]
  /\ UNCHANGED <<row, mpc, result, made, inbox, stored, fate>>

\* The row found by the query gets the CALL, whatever it holds by now, or the
\* commit fails and the CALL is lost. A claimed CALL is not answered here.
CommitTrigger(s) ==
  /\ task[s].at = "commit"
  /\ \/ /\ row' = [row EXCEPT ![task[s].trigger].request = task[s].call]
        /\ Finish(s, "matched")
     \/ /\ UNCHANGED row
        /\ Finish(s, "failed")
  /\ UNCHANGED <<mpc, result, made, inbox, stored>>

\* No open row: CALLRESULT "Accepted" through send_message, which may drop it;
\* an exception (the send, or a SetVariables without data) is caught.
Reply(s) ==
  /\ task[s].at = "reply"
  /\ \E f \in {"answered", "failed"} : Finish(s, f)
  /\ UNCHANGED <<row, mpc, result, made, inbox, stored>>

HandleCall(s) ==
  StoreVariable(s) \/ QueryTrigger(s) \/ CommitTrigger(s) \/ Reply(s)

Next ==
  \/ CreateTrigger \/ AskCsms \/ PollTrigger
  \/ \E s \in Sockets :
       CsmsCall(s) \/ ConnectionCloses(s) \/ ReceiveCall(s) \/ HandleCall(s)

Spec == Init /\ [][Next]_vars

\* An idle socket thread reads what has arrived, and the database calls of a
\* handler return. Nothing is asked of Main, whose request to the API has no
\* timeout, nor of Reply: send_message may reconnect and then waits for the
\* answer to a registration request, which has no timeout either.
FairSpec ==
  /\ Spec
  /\ \A s \in Sockets :
       /\ WF_vars(ReceiveCall(s))
       /\ WF_vars(StoreVariable(s) \/ QueryTrigger(s) \/ CommitTrigger(s))

-----------------------------------------------------------------------------
(* Properties *)

\* c has taken the place of d: both CALLs are of one action, and came over two
\* connections.  on_call_message's query and commit can be separated by the
\* commit of the other socket's thread, never by one of its own.
Displaces(c, d) ==
  made[c].action = made[d].action /\ made[c].socket # made[d].socket

\* A CALL is recorded in at most one send_trigger row, in one of its own
\* action, and never one that was answered or failed instead.  No matched CALL
\* is lost but in a race of two connections: it stands in a row, or a CALL that
\* displaced it does.  send_trigger_and_wait reports success only for a row that
\* has its request, and a row without a result is still the newest.
MatchedOnce ==
  /\ \A t \in 1..Len(row) : row[t].request # NoCall =>
       /\ made[row[t].request].action = row[t].action
       /\ fate[row[t].request] = "matched"
       /\ \A u \in 1..Len(row) : row[u].request = row[t].request => u = t
  /\ \A c \in Calls : fate[c] = "matched" =>
       \E t \in 1..Len(row) :
         row[t].request # NoCall /\ (row[t].request = c \/ Displaces(row[t].request, c))
  /\ \A t \in 1..Len(row) :
       /\ result[t] = "received" => row[t].request # NoCall
       /\ result[t] = "none" => t = Newest /\ mpc # "next"

\* A SetVariables CALL is answered "Accepted", or matched with a trigger, only
\* when all of its variables are in the database.
AcceptedIsStored ==
  \A c \in 1..Len(made) :
    fate[c] \in {"answered", "matched"} => stored[c] = Wanted(c)

\* The thread that CALL c goes to is sending an answer.
Replying(c) == c <= Len(made) /\ task[made[c].socket].at = "reply"

\* Every CALL comes to an end: it is matched, answered or failed, or lost
\* unread when its connection closed. The one exception is a CALL whose thread
\* hangs in the send of an answer; no other path of on_call_message, the
\* failing ones included, keeps a socket thread from its next CALL.
CallsHandled ==
  \A c \in Calls :
    (Len(made) >= c) ~> (fate[c] # "none" \/ []Replying(c))

=============================================================================
