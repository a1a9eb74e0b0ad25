------------------------ MODULE TriggerMatchingProofs ------------------------
(***************************************************************************)
(* Proofs about TriggerMatching, for any number of socket threads, rows,   *)
(* CALLs and variables.                                                    *)
(***************************************************************************)
EXTENDS TriggerMatching, SequenceTheorems, WellFoundedInduction, TLAPS

Rows == [action : Actions, request : Nat]
Results == {"none", "received", "timeout", "refused"}
MadeCalls == [action : Actions, socket : Sockets]
Labels == {"idle", "store", "query", "commit", "reply"}
Tasks == [call : Nat, trigger : Nat, at : Labels]
Fates == {"none", "matched", "answered", "failed", "unread"}

\* The types of the variables; result has a place for every row.
Types ==
  /\ row \in Seq(Rows)
  /\ mpc \in {"next", "ask", "poll"}
  /\ result \in Seq(Results)
  /\ Len(result) = Len(row)
  /\ made \in Seq(MadeCalls)
  /\ Len(made) <= NCall
  /\ inbox \in [Sockets -> Seq(Nat)]
  /\ task \in [Sockets -> Tasks]
  /\ stored \in [Calls -> Nat]
  /\ fate \in [Calls -> Fates]

\* CALL c came over socket s and has not been dealt with.
Unsettled(s, c) ==
  /\ c \in 1..Len(made)
  /\ made[c].socket = s
  /\ fate[c] = "none"

\* A CALL that is not made yet has left no trace.
FutureInv ==
  \A c \in Calls : c > Len(made) => fate[c] = "none" /\ stored[c] = 0

\* An inbox holds unsettled CALLs of its socket, in the order they were made.
InboxInv ==
  \A s \in Sockets : \A k \in 1..Len(inbox[s]) :
    /\ Unsettled(s, inbox[s][k])
    /\ stored[inbox[s][k]] = 0
    /\ \A j \in 1..Len(inbox[s]) : j < k => inbox[s][j] < inbox[s][k]

\* A socket thread works on an unsettled CALL that has left the inbox; how many
\* of its variables are stored follows from where the thread is, and the row
\* it is about to commit to is of the action of the CALL.
TaskInv ==
  \A s \in Sockets : task[s] # Idle =>
    LET c == task[s].call
        t == task[s].trigger
    IN /\ Unsettled(s, c)
       /\ \A k \in 1..Len(inbox[s]) : c < inbox[s][k]
       /\ task[s].at # "idle"
       /\ task[s].at = "store" => stored[c] < Wanted(c)
       /\ task[s].at # "store" => stored[c] = Wanted(c)
       /\ task[s].at = "commit" => t \in 1..Len(row) /\ row[t].action = made[c].action

\* A row holds a matched CALL of its action, and no other row holds it.
RowInv ==
  \A t \in 1..Len(row) : row[t].request # NoCall =>
    /\ row[t].request \in 1..Len(made)
    /\ made[row[t].request].action = row[t].action
    /\ fate[row[t].request] = "matched"
    /\ \A u \in 1..Len(row) : row[u].request = row[t].request => u = t

\* Row t accounts for the matched CALL c: it holds c or a CALL that displaced it.
\* What the second conjunct of MatchedOnce lacks is that no thread of c's own
\* socket is about to commit to t: that thread has queried after c was matched,
\* and found an open row.
Accounts(t, c) ==
  /\ row[t].request # NoCall
  /\ row[t].request = c \/ Displaces(row[t].request, c)
  /\ \A s \in Sockets : task[s].at = "commit" /\ task[s].trigger = t => s # made[c].socket

AccountedInv ==
  \A c \in Calls : fate[c] = "matched" => \E t \in 1..Len(row) : Accounts(t, c)

\* What Main knows of its rows.
ResultInv ==
  /\ mpc # "next" => Len(row) > 0
  /\ \A t \in 1..Len(row) :
       /\ result[t] = "received" => row[t].request # NoCall
       /\ result[t] = "none" => t = Newest /\ mpc # "next"

StoredInv ==
  \A c \in 1..Len(made) : fate[c] \in {"answered", "matched"} => stored[c] = Wanted(c)

IInv ==
  /\ Types /\ FutureInv /\ InboxInv /\ TaskInv /\ RowInv /\ AccountedInv
  /\ ResultInv /\ StoredInv

-----------------------------------------------------------------------------
\* Appending keeps the earlier elements; an update keeps the length.
LEMMA AppendFacts ==
  ASSUME NEW S, NEW q \in Seq(S), NEW e \in S
  PROVE  /\ Append(q, e) \in Seq(S)
         /\ Len(Append(q, e)) = Len(q) + 1
         /\ \A k \in 1..Len(q) : Append(q, e)[k] = q[k]
         /\ Append(q, e)[Len(q) + 1] = e
BY AppendProperties

LEMMA TailFacts ==
  ASSUME NEW S, NEW q \in Seq(S), q # <<>>
  PROVE  /\ Head(q) = q[1] /\ Head(q) \in S
         /\ Len(q) \in Nat /\ Len(q) > 0
         /\ Tail(q) \in Seq(S)
         /\ Len(Tail(q)) = Len(q) - 1
         /\ \A k \in 1..(Len(q) - 1) : Tail(q)[k] = q[k + 1]
BY HeadTailProperties, EmptySeq, LenProperties

LEMMA UpdateFacts ==
  ASSUME NEW S, NEW q \in Seq(S), NEW i \in 1..Len(q), NEW e \in S
  PROVE  /\ [q EXCEPT ![i] = e] \in Seq(S)
         /\ Len([q EXCEPT ![i] = e]) = Len(q)
         /\ \A k \in 1..Len(q) : [q EXCEPT ![i] = e][k] = IF k = i THEN e ELSE q[k]
BY ExceptSeq

-----------------------------------------------------------------------------
(* The initial states *)

LEMMA InitIInv == Init => IInv
BY TriggerMatchingAssumption
   DEF Init, IInv, Types, FutureInv, InboxInv, TaskInv, RowInv, AccountedInv,
       ResultInv, StoredInv, Idle, NoCall, NoTrigger, Tasks, Labels, Fates, Calls

-----------------------------------------------------------------------------
(* Main *)

LEMMA CreateTriggerIInv ==
  ASSUME IInv, CreateTrigger
  PROVE  IInv'
<1>1. PICK a \in Actions : row' = Append(row, [action |-> a, request |-> NoCall])
  BY DEF CreateTrigger
<1> DEFINE e == [action |-> a, request |-> NoCall]
<1>2. /\ e \in Rows /\ e.request = NoCall
      /\ row \in Seq(Rows) /\ result \in Seq(Results) /\ Len(result) = Len(row)
      /\ "none" \in Results
  BY DEF Rows, NoCall, Results, IInv, Types
<1>3. /\ row' \in Seq(Rows) /\ Len(row') = Len(row) + 1 /\ Len(row) \in Nat
      /\ \A t \in 1..Len(row) : row'[t] = row[t]
      /\ row'[Len(row) + 1].request = NoCall
  BY <1>1, <1>2, AppendFacts, LenProperties
<1>4. /\ result' \in Seq(Results) /\ Len(result') = Len(row')
      /\ \A t \in 1..Len(row) : result'[t] = result[t]
      /\ result'[Len(row) + 1] = "none"
  BY <1>2, <1>3, AppendFacts DEF CreateTrigger
<1>5. /\ mpc' = "ask" /\ mpc = "next"
      /\ UNCHANGED <<made, inbox, task, stored, fate>>
  BY DEF CreateTrigger
<1>6. Types'
  BY <1>3, <1>4, <1>5 DEF IInv, Types
<1>7. FutureInv' /\ InboxInv' /\ StoredInv'
  BY <1>5 DEF IInv, FutureInv, InboxInv, StoredInv, Unsettled, Wanted
<1>8. TaskInv'
  BY <1>3, <1>5 DEF IInv, TaskInv, Unsettled, Wanted
<1>9. RowInv'
  BY <1>3, <1>5 DEF IInv, RowInv
<1>10. AccountedInv'
  BY <1>3, <1>5 DEF IInv, AccountedInv, Accounts, Displaces
<1>11. ResultInv'
  BY <1>3, <1>4, <1>5 DEF IInv, ResultInv, Newest
<1> QED
  BY <1>6, <1>7, <1>8, <1>9, <1>10, <1>11 DEF IInv

\* The answer of the CSMS's API, and the polls, change the newest result alone.
LEMMA ResultIInv ==
  ASSUME IInv, mpc # "next", mpc' = "next",
         NEW r \in Results \ {"none"},
         r = "received" => row[Newest].request # NoCall,
         result' = [result EXCEPT ![Newest] = r],
         UNCHANGED <<row, made, inbox, task, stored, fate>>
  PROVE  IInv'
<1>1. Newest \in 1..Len(result) /\ Len(result) = Len(row) /\ row \in Seq(Rows)
  BY LenProperties DEF IInv, Types, ResultInv, Newest
<1>2. /\ result' \in Seq(Results) /\ Len(result') = Len(row)
      /\ \A t \in 1..Len(row) : result'[t] = IF t = Newest THEN r ELSE result[t]
  BY <1>1, UpdateFacts DEF IInv, Types
<1>3. Types'
  BY <1>2 DEF IInv, Types
<1>4. FutureInv' /\ InboxInv' /\ StoredInv' /\ RowInv'
  BY DEF IInv, FutureInv, InboxInv, StoredInv, RowInv, Unsettled, Wanted
<1>5. TaskInv' /\ AccountedInv'
  BY DEF IInv, TaskInv, AccountedInv, Accounts, Displaces, Unsettled, Wanted
<1>6. ResultInv'
  BY <1>1, <1>2 DEF IInv, ResultInv, Newest
<1> QED
  BY <1>3, <1>4, <1>5, <1>6 DEF IInv

LEMMA AskCsmsIInv ==
  ASSUME IInv, AskCsms
  PROVE  IInv'
<1>1. CASE mpc' = "poll" /\ UNCHANGED result
  <2>1. /\ mpc = "ask"
        /\ UNCHANGED <<row, made, inbox, task, stored, fate>>
    BY DEF AskCsms
  <2>2. Types'
    BY <1>1, <2>1 DEF IInv, Types
  <2>3. FutureInv' /\ InboxInv' /\ StoredInv' /\ RowInv'
    BY <1>1, <2>1 DEF IInv, FutureInv, InboxInv, StoredInv, RowInv, Unsettled, Wanted
  <2>4. TaskInv' /\ AccountedInv' /\ ResultInv'
    BY <1>1, <2>1 DEF IInv, TaskInv, AccountedInv, Accounts, Displaces, Unsettled,
                      Wanted, ResultInv, Newest
  <2> QED
    BY <2>2, <2>3, <2>4 DEF IInv
<1>2. CASE mpc' = "next" /\ result' = [result EXCEPT ![Newest] = "refused"]
  <2>1. "refused" \in Results \ {"none"} /\ "refused" # "received"
    BY DEF Results
  <2> QED
    BY <1>2, <2>1, ResultIInv DEF AskCsms
<1> QED
  BY <1>1, <1>2 DEF AskCsms

LEMMA PollTriggerIInv ==
  ASSUME IInv, PollTrigger
  PROVE  IInv'
<1> DEFINE r == IF row[Newest].request # NoCall THEN "received" ELSE "timeout"
<1>1. /\ r \in Results \ {"none"}
      /\ r = "received" => row[Newest].request # NoCall
  BY DEF Results
<1> QED
  BY <1>1, ResultIInv DEF PollTrigger

-----------------------------------------------------------------------------
(* The CSMS *)

LEMMA CsmsCallIInv ==
  ASSUME IInv, NEW s \in Sockets, CsmsCall(s)
  PROVE  IInv'
<1>1. PICK a \in Actions : made' = Append(made, [action |-> a, socket |-> s])
  BY DEF CsmsCall
<1>0. PICK n \in Nat : n = Len(made)
  BY LenProperties DEF IInv, Types
<1>2. /\ UNCHANGED <<row, mpc, result, task, stored, fate>>
      /\ n < NCall
      /\ inbox' = [inbox EXCEPT ![s] = Append(@, Len(made'))]
  BY <1>0 DEF CsmsCall
<1>3. [action |-> a, socket |-> s] \in MadeCalls /\ made \in Seq(MadeCalls)
  BY DEF MadeCalls, IInv, Types
<1>4. /\ made' \in Seq(MadeCalls) /\ Len(made') = n + 1
      /\ \A c \in 1..n : made'[c] = made[c]
      /\ made'[n + 1].socket = s
  BY <1>0, <1>1, <1>3, AppendFacts
<1>5. /\ inbox' = [inbox EXCEPT ![s] = Append(@, n + 1)]
      /\ inbox \in [Sockets -> Seq(Nat)]
  BY <1>2, <1>4 DEF IInv, Types
<1>6. /\ inbox'[s] \in Seq(Nat) /\ Len(inbox'[s]) = Len(inbox[s]) + 1
      /\ Len(inbox[s]) \in Nat
      /\ \A k \in 1..Len(inbox[s]) : inbox'[s][k] = inbox[s][k]
      /\ inbox'[s][Len(inbox[s]) + 1] = n + 1
  <2>1. inbox[s] \in Seq(Nat) /\ inbox'[s] = Append(inbox[s], n + 1) /\ n + 1 \in Nat
    BY <1>4, <1>5
  <2> QED
    BY <2>1, AppendFacts, LenProperties
<1>7. \A z \in Sockets : z # s => inbox'[z] = inbox[z]
  BY <1>5
<1>8. Types'
  BY <1>2, <1>4, <1>5, <1>6, TriggerMatchingAssumption DEF IInv, Types
<1>9. FutureInv'
  BY <1>0, <1>2, <1>4 DEF IInv, FutureInv, Calls
<1>10. \A z \in Sockets, c \in 1..n : Unsettled(z, c) => Unsettled(z, c)'
  BY <1>0, <1>2, <1>4 DEF Unsettled
<1>11. Unsettled(s, n + 1)' /\ stored'[n + 1] = 0
  BY <1>0, <1>2, <1>4, TriggerMatchingAssumption DEF Unsettled, IInv, FutureInv, Calls
<1>12. \A c \in 1..n : Wanted(c)' = Wanted(c)
  BY <1>4 DEF Wanted
<1>13. InboxInv'
  <2> SUFFICES ASSUME NEW z \in Sockets, NEW k \in 1..Len(inbox'[z])
               PROVE  /\ Unsettled(z, inbox[z][k])'
                      /\ stored'[inbox'[z][k]] = 0
                      /\ \A j \in 1..Len(inbox'[z]) : j < k => inbox'[z][j] < inbox'[z][k]
    BY DEF InboxInv
  <2>1. \A i \in 1..Len(inbox[z]) : inbox[z][i] \in 1..n /\ Unsettled(z, inbox[z][i])
    BY <1>0 DEF IInv, InboxInv, Unsettled
  <2>2. CASE z # s
    BY <1>2, <1>7, <1>10, <2>1, <2>2 DEF IInv, InboxInv
  <2>3. CASE z = s /\ k \in 1..Len(inbox[s])
    BY <1>2, <1>6, <1>10, <2>1, <2>3 DEF IInv, InboxInv
  <2>4. CASE z = s /\ k = Len(inbox[s]) + 1
    <3>1. \A j \in 1..Len(inbox'[z]) : j < k => inbox'[z][j] < inbox'[z][k]
      <4> SUFFICES ASSUME NEW j \in 1..Len(inbox'[s]), j < k
                   PROVE  inbox'[s][j] < inbox'[s][k]
        BY <2>4
      <4>1. j \in 1..Len(inbox[s])
        BY <1>6, <2>4
      <4>2. inbox'[s][j] \in 1..n /\ inbox'[s][k] = n + 1
        BY <1>6, <2>1, <2>4, <4>1
      <4> QED
        BY <1>0, <4>2
    <3>2. Unsettled(z, inbox[z][k])' /\ stored'[inbox'[z][k]] = 0
      BY <1>6, <1>11, <2>4 DEF Unsettled
    <3> QED
      BY <3>1, <3>2
  <2> QED
    BY <1>6, <2>2, <2>3, <2>4
<1>14. TaskInv'
  <2> SUFFICES ASSUME NEW z \in Sockets, task[z] # Idle,
                      NEW c, c = task[z].call,
                      NEW t, t = task[z].trigger
               PROVE  /\ Unsettled(z, c)'
                      /\ \A k \in 1..Len(inbox'[z]) : c < inbox'[z][k]
                      /\ task[z].at # "idle"
                      /\ task[z].at = "store" => stored[c] < Wanted(c)'
                      /\ task[z].at # "store" => stored[c] = Wanted(c)'
                      /\ task[z].at = "commit" =>
                           t \in 1..Len(row) /\ row[t].action = made'[c].action
    BY <1>2 DEF TaskInv, Idle, NoCall, NoTrigger, Unsettled, Wanted
  <2>1. c \in 1..n /\ Unsettled(z, c) /\ \A k \in 1..Len(inbox[z]) : c < inbox[z][k]
    BY <1>0 DEF IInv, TaskInv, Unsettled
  <2>2. \A k \in 1..Len(inbox'[z]) : c < inbox'[z][k]
    <3>1. CASE z = s
      <4> TAKE k \in 1..Len(inbox'[z])
      <4>1. k \in 1..Len(inbox[s]) \/ k = Len(inbox[s]) + 1
        BY <1>6, <3>1
      <4> QED
        BY <1>0, <1>4, <1>6, <2>1, <3>1, <4>1
    <3>2. CASE z # s
      BY <1>7, <2>1, <3>2
    <3> QED
      BY <3>1, <3>2
  <2>3. Unsettled(z, c)' /\ Wanted(c)' = Wanted(c) /\ made'[c] = made[c]
    BY <1>4, <1>10, <1>12, <2>1
  <2> QED
    BY <2>2, <2>3 DEF IInv, TaskInv
<1>15. RowInv'
  BY <1>0, <1>2, <1>4 DEF IInv, RowInv
<1>16. AccountedInv'
  <2>1. \A c \in Calls : fate[c] = "matched" => c \in 1..n
    BY <1>0, <1>4 DEF IInv, FutureInv, Calls
  <2>2. \A t \in 1..Len(row) : row[t].request # NoCall => row[t].request \in 1..n
    BY <1>0 DEF IInv, RowInv
  <2>3. \A t \in 1..Len(row), c \in 1..n : Accounts(t, c) => Accounts(t, c)'
    BY <1>2, <1>4, <2>2 DEF Accounts, Displaces
  <2> QED
    BY <1>2, <2>1, <2>3 DEF IInv, AccountedInv
<1>17. ResultInv'
  BY <1>2 DEF IInv, ResultInv, Newest
<1>18. StoredInv'
  <2>1. fate'[n + 1] = "none"
    BY <1>11 DEF Unsettled
  <2> QED
    BY <1>0, <1>2, <1>4, <1>12, <2>1 DEF IInv, StoredInv
<1> QED
  BY <1>8, <1>9, <1>13, <1>14, <1>15, <1>16, <1>17, <1>18 DEF IInv

\* The CALLs that a closing connection takes along are unsettled and unread:
\* no row holds one and no thread works on one.
LEMMA ConnectionClosesIInv ==
  ASSUME IInv, NEW s \in Sockets, ConnectionCloses(s)
  PROVE  IInv'
<1> DEFINE Lost(c) == \E k \in 1..Len(inbox[s]) : inbox[s][k] = c
<1>1. /\ UNCHANGED <<row, mpc, result, made, task, stored>>
      /\ inbox' = [inbox EXCEPT ![s] = <<>>]
      /\ fate' = [c \in Calls |-> IF Lost(c) THEN "unread" ELSE fate[c]]
  BY DEF ConnectionCloses
<1>2. /\ inbox \in [Sockets -> Seq(Nat)] /\ fate \in [Calls -> Fates]
      /\ Len(made) \in Nat /\ Len(made) <= NCall
  BY LenProperties DEF IInv, Types
<1>3. \A c : Lost(c) => Unsettled(s, c)
  BY DEF IInv, InboxInv
<1>4. /\ inbox'[s] = <<>> /\ Len(inbox'[s]) = 0
      /\ \A z \in Sockets : z # s => inbox'[z] = inbox[z]
  BY <1>1, <1>2
<1>5. \A c \in 1..Len(made) : c \in Calls
  BY <1>2, TriggerMatchingAssumption DEF Calls
<1>6. \A c \in Calls : fate'[c] = IF Lost(c) THEN "unread" ELSE fate[c]
  BY <1>1
<1>7. Types'
  <2>1. fate' \in [Calls -> Fates] /\ inbox' \in [Sockets -> Seq(Nat)]
    BY <1>1, <1>2 DEF Fates
  <2> QED
    BY <1>1, <2>1 DEF IInv, Types
<1>8. \A c \in Calls : c > Len(made) => ~Lost(c)
  BY <1>2, <1>3 DEF Unsettled, Calls
<1>9. FutureInv'
  BY <1>1, <1>6, <1>8 DEF IInv, FutureInv
<1>10. \A z, c : Unsettled(z, c) /\ ~Lost(c) => Unsettled(z, c)'
  BY <1>1, <1>5, <1>6 DEF Unsettled
<1>11. InboxInv'
  <2> SUFFICES ASSUME NEW z \in Sockets, NEW k \in 1..Len(inbox'[z])
               PROVE  /\ Unsettled(z, inbox[z][k])'
                      /\ stored'[inbox'[z][k]] = 0
                      /\ \A j \in 1..Len(inbox'[z]) : j < k => inbox'[z][j] < inbox'[z][k]
    BY DEF InboxInv
  <2>1. z # s
    BY <1>4
  <2>2. inbox'[z] = inbox[z] /\ k \in 1..Len(inbox[z])
    BY <1>4, <2>1
  <2>3. Unsettled(z, inbox[z][k]) /\ ~Lost(inbox[z][k])
    BY <1>3, <2>1, <2>2 DEF IInv, InboxInv, Unsettled
  <2>4. PICK c : c = inbox[z][k]
    OBVIOUS
  <2>5. Unsettled(z, c)' /\ c = inbox'[z][k]
    BY <1>10, <2>2, <2>3, <2>4
  <2> QED
    BY <1>1, <2>2, <2>5 DEF IInv, InboxInv, Unsettled
<1>12. TaskInv'
  <2> SUFFICES ASSUME NEW z \in Sockets, task[z] # Idle,
                      NEW c, c = task[z].call,
                      NEW t, t = task[z].trigger
               PROVE  /\ Unsettled(z, c)'
                      /\ \A k \in 1..Len(inbox'[z]) : c < inbox'[z][k]
                      /\ task[z].at # "idle"
                      /\ task[z].at = "store" => stored[c] < Wanted(c)
                      /\ task[z].at # "store" => stored[c] = Wanted(c)
                      /\ task[z].at = "commit" =>
                           t \in 1..Len(row) /\ row[t].action = made[c].action
    BY <1>1 DEF TaskInv, Idle, NoCall, NoTrigger, Unsettled, Wanted
  <2>1. Unsettled(z, c) /\ c \in Nat /\ \A k \in 1..Len(inbox[z]) : c < inbox[z][k]
    BY DEF IInv, TaskInv, Unsettled
  <2>2. ~Lost(c)
    BY <1>3, <2>1 DEF Unsettled
  <2>3. Unsettled(z, c)' /\ \A k \in 1..Len(inbox'[z]) : c < inbox'[z][k]
    BY <1>4, <1>10, <2>1, <2>2
  <2> QED
    BY <2>3 DEF IInv, TaskInv
<1>13. \A c \in Calls : fate[c] = "matched" <=> fate'[c] = "matched"
  BY <1>3, <1>6 DEF Unsettled
<1>14. RowInv'
  BY <1>1, <1>5, <1>13 DEF IInv, RowInv
<1>15. AccountedInv'
  BY <1>1, <1>13 DEF IInv, AccountedInv, Accounts, Displaces
<1>16. ResultInv' /\ StoredInv'
  BY <1>1, <1>5, <1>6 DEF IInv, ResultInv, StoredInv, Newest, Wanted
<1> QED
  BY <1>7, <1>9, <1>11, <1>12, <1>14, <1>15, <1>16 DEF IInv

-----------------------------------------------------------------------------
(* The socket threads *)

\* The parts of the invariant that say nothing of the threads.
LEMMA NotTasks ==
  ASSUME IInv, UNCHANGED <<row, mpc, result, made, fate>>
  PROVE  RowInv' /\ ResultInv'
BY DEF IInv, RowInv, ResultInv, Newest

LEMMA ReceiveCallIInv ==
  ASSUME IInv, NEW s \in Sockets, ReceiveCall(s)
  PROVE  IInv'
<1>0. PICK h : h = Head(inbox[s])
  OBVIOUS
<1>1. /\ UNCHANGED <<row, mpc, result, made, stored, fate>>
      /\ task[s] = Idle /\ inbox[s] # <<>>
      /\ task' = [task EXCEPT ![s] = [Idle EXCEPT !.call = h, !.at = AfterStore(h, 0)]]
      /\ inbox' = [inbox EXCEPT ![s] = Tail(@)]
  BY <1>0 DEF ReceiveCall
<1>2. /\ inbox \in [Sockets -> Seq(Nat)] /\ task \in [Sockets -> Tasks]
      /\ inbox[s] \in Seq(Nat)
  BY DEF IInv, Types
<1>3. /\ h = inbox[s][1] /\ h \in Nat
      /\ Len(inbox[s]) \in Nat /\ Len(inbox[s]) > 0
      /\ inbox'[s] \in Seq(Nat) /\ Len(inbox'[s]) = Len(inbox[s]) - 1
      /\ \A k \in 1..(Len(inbox[s]) - 1) : inbox'[s][k] = inbox[s][k + 1]
  BY <1>0, <1>1, <1>2, TailFacts
<1>4. \A z \in Sockets : z # s => inbox'[z] = inbox[z] /\ task'[z] = task[z]
  BY <1>1, <1>2
<1>5. /\ task'[s] = [call |-> h, trigger |-> NoTrigger, at |-> AfterStore(h, 0)]
      /\ AfterStore(h, 0) \in {"store", "query"}
  BY <1>1, <1>2 DEF Idle, AfterStore
<1>6. Types'
  <2>1. task'[s] \in Tasks
    BY <1>3, <1>5 DEF Tasks, Labels, NoTrigger
  <2>2. task' \in [Sockets -> Tasks] /\ inbox' \in [Sockets -> Seq(Nat)]
    BY <1>1, <1>2, <1>3, <2>1
  <2> QED
    BY <1>1, <2>2 DEF IInv, Types
<1>7. \A z, c : Unsettled(z, c)' <=> Unsettled(z, c)
  BY <1>1 DEF Unsettled
<1>8. FutureInv' /\ StoredInv'
  BY <1>1 DEF IInv, FutureInv, StoredInv, Wanted
<1>9. InboxInv'
  <2> SUFFICES ASSUME NEW z \in Sockets, NEW k \in 1..Len(inbox'[z]), NEW c,
                      c = inbox'[z][k]
               PROVE  /\ Unsettled(z, c)
                      /\ stored[c] = 0
                      /\ \A j \in 1..Len(inbox'[z]) : j < k => inbox'[z][j] < c
    BY <1>1 DEF InboxInv, Unsettled
  <2>1. CASE z = s
    <3>1. k + 1 \in 1..Len(inbox[s]) /\ c = inbox[s][k + 1]
      BY <1>3, <2>1
    <3>2. \A j \in 1..Len(inbox'[z]) : j < k =>
            j + 1 \in 1..Len(inbox[s]) /\ j + 1 < k + 1 /\ inbox'[z][j] = inbox[s][j + 1]
      BY <1>3, <2>1
    <3> QED
      BY <2>1, <3>1, <3>2 DEF IInv, InboxInv
  <2>2. CASE z # s
    BY <1>4, <2>2 DEF IInv, InboxInv
  <2> QED
    BY <2>1, <2>2
<1>10. TaskInv'
  <2>1. /\ Unsettled(s, h)
        /\ \A k \in 1..Len(inbox'[s]) : h < inbox'[s][k]
        /\ stored[h] = 0
    <3>1. 1 \in 1..Len(inbox[s]) /\ \A k \in 1..Len(inbox'[s]) :
            k + 1 \in 1..Len(inbox[s]) /\ 1 < k + 1 /\ inbox'[s][k] = inbox[s][k + 1]
      BY <1>3
    <3> QED
      BY <1>3, <3>1 DEF IInv, InboxInv
  <2>2. /\ AfterStore(h, 0) = "store" => stored[h] < Wanted(h)
        /\ AfterStore(h, 0) # "store" => stored[h] = Wanted(h)
    BY <2>1, TriggerMatchingAssumption DEF AfterStore, Wanted
  <2>3. /\ task'[s].call = h /\ task'[s].at = AfterStore(h, 0)
        /\ task'[s].at # "idle" /\ task'[s].at # "commit"
    BY <1>5
  <2> SUFFICES ASSUME NEW z \in Sockets, task'[z] # Idle,
                      NEW c, c = task'[z].call,
                      NEW t, t = task'[z].trigger
               PROVE  /\ Unsettled(z, c)
                      /\ \A k \in 1..Len(inbox'[z]) : c < inbox'[z][k]
                      /\ task'[z].at # "idle"
                      /\ task'[z].at = "store" => stored[c] < Wanted(c)
                      /\ task'[z].at # "store" => stored[c] = Wanted(c)
                      /\ task'[z].at = "commit" =>
                           t \in 1..Len(row) /\ row[t].action = made[c].action
    BY <1>1 DEF TaskInv, Idle, NoCall, NoTrigger, Unsettled, Wanted
  <2>4. CASE z = s
    BY <2>1, <2>2, <2>3, <2>4
  <2>5. CASE z # s
    BY <1>4, <2>5 DEF IInv, TaskInv
  <2> QED
    BY <2>4, <2>5
<1>11. AccountedInv'
  <2>1. \A z \in Sockets : task'[z].at = "commit" => task[z] = task'[z]
    BY <1>4, <1>5
  <2>2. \A t, c : Accounts(t, c) => Accounts(t, c)'
    BY <1>1, <2>1 DEF Accounts, Displaces
  <2> QED
    BY <1>1, <2>2 DEF IInv, AccountedInv
<1> QED
  BY <1>1, <1>6, <1>8, <1>9, <1>10, <1>11, NotTasks DEF IInv

\* What the invariant says of a thread that is handling a CALL.
LEMMA Handling ==
  ASSUME IInv, NEW s \in Sockets, task[s].at # "idle", NEW c, c = task[s].call
  PROVE  /\ c \in 1..Len(made) /\ c \in Calls /\ c \in Nat
         /\ Unsettled(s, c)
         /\ \A k \in 1..Len(inbox[s]) : c < inbox[s][k]
         /\ task[s].at = "store" => stored[c] < Wanted(c)
         /\ task[s].at # "store" => stored[c] = Wanted(c)
         /\ \A z \in Sockets : \A k \in 1..Len(inbox[z]) : inbox[z][k] # c
         /\ \A z \in Sockets : z # s /\ task[z] # Idle => task[z].call # c
         /\ \A t \in 1..Len(row) : row[t].request # NoCall => row[t].request # c
<1>1. task[s] # Idle
  BY DEF Idle
<1>2. /\ Unsettled(s, c)
      /\ \A k \in 1..Len(inbox[s]) : c < inbox[s][k]
      /\ task[s].at = "store" => stored[c] < Wanted(c)
      /\ task[s].at # "store" => stored[c] = Wanted(c)
  BY <1>1 DEF IInv, TaskInv
<1>3. c \in 1..Len(made) /\ c \in Calls /\ c \in Nat
  BY <1>2, LenProperties, TriggerMatchingAssumption DEF Unsettled, IInv, Types, Calls
<1>4. \A z \in Sockets : \A k \in 1..Len(inbox[z]) : inbox[z][k] # c
  <2> TAKE z \in Sockets
  <2> TAKE k \in 1..Len(inbox[z])
  <2>1. CASE z = s
    BY <1>2, <1>3, <2>1
  <2>2. CASE z # s
    BY <1>2, <2>2 DEF Unsettled, IInv, InboxInv
  <2> QED
    BY <2>1, <2>2
<1>5. \A z \in Sockets : z # s /\ task[z] # Idle => task[z].call # c
  BY <1>2 DEF Unsettled, IInv, TaskInv
<1>6. \A t \in 1..Len(row) : row[t].request # NoCall => row[t].request # c
  BY <1>2 DEF Unsettled, IInv, RowInv
<1> QED
  BY <1>2, <1>3, <1>4, <1>5, <1>6

\* A thread that ends its handler leaves every other CALL as it was.
LEMMA FinishFacts ==
  ASSUME IInv, NEW s \in Sockets, task[s].at # "idle", NEW c, c = task[s].call,
         NEW f \in Fates, Finish(s, f)
  PROVE  /\ task' \in [Sockets -> Tasks] /\ task'[s] = Idle
         /\ \A z \in Sockets : z # s => task'[z] = task[z]
         /\ fate' \in [Calls -> Fates] /\ fate'[c] = f
         /\ \A d \in Calls : d # c => fate'[d] = fate[d]
<1>1. task \in [Sockets -> Tasks] /\ fate \in [Calls -> Fates] /\ c \in Calls
  BY Handling DEF IInv, Types
<1>2. Idle \in Tasks
  BY DEF Idle, Tasks, Labels, NoCall, NoTrigger
<1> QED
  BY <1>1, <1>2 DEF Finish

\* The parts of the invariant about the threads and their CALLs after Finish.
LEMMA FinishThreads ==
  ASSUME IInv, NEW s \in Sockets, task[s].at # "idle", NEW c, c = task[s].call,
         NEW f \in Fates \ {"none"}, Finish(s, f),
         f \in {"answered", "matched"} => stored[c] = Wanted(c),
         UNCHANGED <<made, inbox, stored>>,
         Len(row') = Len(row), \A t \in 1..Len(row) : row'[t].action = row[t].action
  PROVE  FutureInv' /\ InboxInv' /\ TaskInv' /\ StoredInv'
<1>1. /\ task'[s] = Idle
      /\ \A z \in Sockets : z # s => task'[z] = task[z]
      /\ fate'[c] = f
      /\ \A d \in Calls : d # c => fate'[d] = fate[d]
  BY FinishFacts
<1>2. /\ c \in 1..Len(made) /\ c \in Calls /\ c \in Nat
      /\ \A z \in Sockets : \A k \in 1..Len(inbox[z]) : inbox[z][k] # c
      /\ \A z \in Sockets : z # s /\ task[z] # Idle => task[z].call # c
  BY Handling
<1>3. \A d \in 1..Len(made) : d \in Calls
  BY TriggerMatchingAssumption, LenProperties DEF IInv, Types, Calls
<1>4. \A z, d : d # c /\ Unsettled(z, d) => Unsettled(z, d)'
  BY <1>1, <1>3 DEF Unsettled
<1>5. FutureInv'
  BY <1>1, <1>2 DEF IInv, FutureInv, Calls
<1>6. InboxInv'
  <2> SUFFICES ASSUME NEW z \in Sockets, NEW k \in 1..Len(inbox[z]), NEW d,
                      d = inbox[z][k]
               PROVE  Unsettled(z, d)'
    BY DEF IInv, InboxInv, Unsettled
  <2>1. d # c /\ Unsettled(z, d)
    BY <1>2 DEF IInv, InboxInv
  <2> QED
    BY <1>4, <2>1
<1>7. TaskInv'
  <2> SUFFICES ASSUME NEW z \in Sockets, task'[z] # Idle
               PROVE  /\ task'[z] = task[z] /\ task[z] # Idle
                      /\ \E d : d = task[z].call /\ Unsettled(z, d)'
    BY DEF IInv, TaskInv, Unsettled, Wanted, Idle, NoCall, NoTrigger
  <2>1. z # s /\ task'[z] = task[z]
    BY <1>1
  <2>2. PICK d : d = task[z].call
    OBVIOUS
  <2>3. d # c /\ Unsettled(z, d)
    BY <1>2, <2>1, <2>2 DEF IInv, TaskInv
  <2> QED
    BY <1>4, <2>1, <2>2, <2>3
<1>8. StoredInv'
  BY <1>1, <1>3 DEF IInv, StoredInv, Wanted
<1> QED
  BY <1>5, <1>6, <1>7, <1>8

\* A handler that ends without a match leaves the rows as they are.
LEMMA FinishIInv ==
  ASSUME IInv, NEW s \in Sockets, task[s].at # "idle",
         NEW f \in {"answered", "failed"}, Finish(s, f),
         f = "answered" => task[s].at # "store",
         UNCHANGED <<row, mpc, result, made, inbox, stored>>
  PROVE  IInv'
<1>0. PICK c : c = task[s].call
  OBVIOUS
<1>1. /\ c \in Calls /\ fate[c] = "none"
      /\ f = "answered" => stored[c] = Wanted(c)
      /\ \A t \in 1..Len(row) : row[t].request # NoCall => row[t].request # c
  BY <1>0, Handling DEF Unsettled
<1>2. /\ task' \in [Sockets -> Tasks] /\ task'[s] = Idle
      /\ \A z \in Sockets : z # s => task'[z] = task[z]
      /\ fate' \in [Calls -> Fates] /\ fate'[c] = f
      /\ \A d \in Calls : d # c => fate'[d] = fate[d]
      /\ f # "matched" /\ f \in Fates \ {"none"}
  BY <1>0, FinishFacts DEF Fates
<1>3. Types'
  BY <1>2 DEF IInv, Types
<1>4. FutureInv' /\ InboxInv' /\ TaskInv' /\ StoredInv'
  BY <1>0, <1>1, <1>2, FinishThreads
<1>5. RowInv'
  <2>1. \A t \in 1..Len(row) : row[t].request # NoCall =>
          row[t].request \in Calls /\ row[t].request # c
    BY <1>1, TriggerMatchingAssumption, LenProperties DEF IInv, Types, RowInv, Calls
  <2> QED
    BY <1>2, <2>1 DEF IInv, RowInv
<1>6. AccountedInv'
  <2>1. \A z \in Sockets : task'[z].at = "commit" => task[z] = task'[z]
    BY <1>2 DEF Idle
  <2>2. \A t, d : Accounts(t, d) => Accounts(t, d)'
    BY <2>1 DEF Accounts, Displaces
  <2> QED
    BY <1>2, <2>2 DEF IInv, AccountedInv
<1>7. ResultInv'
  BY DEF IInv, ResultInv, Newest
<1> QED
  BY <1>3, <1>4, <1>5, <1>6, <1>7 DEF IInv

LEMMA StoreVariableIInv ==
  ASSUME IInv, NEW s \in Sockets, StoreVariable(s)
  PROVE  IInv'
<1>0. PICK c : c = task[s].call
  OBVIOUS
<1>1. /\ task[s].at = "store"
      /\ UNCHANGED <<row, mpc, result, made, inbox>>
  BY DEF StoreVariable
<1>2. CASE Finish(s, "failed") /\ UNCHANGED stored
  BY <1>1, <1>2, FinishIInv
<1>3. CASE /\ stored' = [stored EXCEPT ![c] = @ + 1]
           /\ task' = [task EXCEPT ![s].at = AfterStore(c, stored'[c])]
           /\ UNCHANGED fate
  <2>1. /\ c \in 1..Len(made) /\ c \in Calls /\ Unsettled(s, c)
        /\ \A k \in 1..Len(inbox[s]) : c < inbox[s][k]
        /\ stored[c] < Wanted(c)
        /\ \A z \in Sockets : \A k \in 1..Len(inbox[z]) : inbox[z][k] # c
        /\ \A z \in Sockets : z # s /\ task[z] # Idle => task[z].call # c
    BY <1>0, <1>1, Handling
  <2>2. /\ stored' \in [Calls -> Nat] /\ stored[c] \in Nat
        /\ stored'[c] = stored[c] + 1
        /\ \A d \in Calls : d # c => stored'[d] = stored[d]
        /\ \A d \in 1..Len(made) : d \in Calls
    BY <1>3, <2>1, TriggerMatchingAssumption, LenProperties DEF IInv, Types, Calls
  <2>3. PICK a : a = AfterStore(c, stored'[c])
    OBVIOUS
  <2>4. /\ a \in {"store", "query"}
        /\ a = "store" => stored'[c] < Wanted(c)
        /\ a # "store" => stored'[c] = Wanted(c)
    BY <2>1, <2>2, <2>3, TriggerMatchingAssumption DEF AfterStore, Wanted
  <2>5. /\ task' \in [Sockets -> Tasks]
        /\ task'[s].at = a /\ task'[s].call = c
        /\ \A z \in Sockets : z # s => task'[z] = task[z]
    BY <1>0, <1>3, <2>3, <2>4 DEF IInv, Types, Tasks, Labels
  <2>6. Types'
    BY <1>1, <1>3, <2>2, <2>5 DEF IInv, Types
  <2>7. FutureInv'
    BY <1>1, <1>3, <2>1, <2>2 DEF IInv, FutureInv, Calls
  <2>8. \A z, d : Unsettled(z, d)' <=> Unsettled(z, d)
    BY <1>1, <1>3 DEF Unsettled
  <2>9. InboxInv'
    <3> SUFFICES ASSUME NEW z \in Sockets, NEW k \in 1..Len(inbox[z]), NEW d,
                        d = inbox[z][k]
                 PROVE  Unsettled(z, d)' /\ stored'[d] = 0
      BY <1>1 DEF IInv, InboxInv, Unsettled
    <3>1. d # c /\ Unsettled(z, d) /\ stored[d] = 0
      BY <2>1 DEF IInv, InboxInv
    <3>2. d \in Calls
      BY <2>2, <3>1 DEF Unsettled
    <3> QED
      BY <2>2, <2>8, <3>1, <3>2
  <2>10. TaskInv'
    <3> SUFFICES ASSUME NEW z \in Sockets, task'[z] # Idle,
                        NEW d, d = task'[z].call,
                        NEW t, t = task'[z].trigger
                 PROVE  /\ Unsettled(z, d)
                        /\ \A k \in 1..Len(inbox[z]) : d < inbox[z][k]
                        /\ task'[z].at # "idle"
                        /\ task'[z].at = "store" => stored'[d] < Wanted(d)
                        /\ task'[z].at # "store" => stored'[d] = Wanted(d)
                        /\ task'[z].at = "commit" =>
                             t \in 1..Len(row) /\ row[t].action = made[d].action
      BY <1>1, <1>3 DEF TaskInv, Idle, NoCall, NoTrigger, Unsettled, Wanted
    <3>1. CASE z = s
      BY <2>1, <2>4, <2>5, <3>1
    <3>2. CASE z # s
      <4>1. task'[z] = task[z] /\ d # c /\ Unsettled(z, d)
        BY <2>1, <2>5, <3>2 DEF IInv, TaskInv
      <4>2. stored'[d] = stored[d]
        BY <2>2, <4>1 DEF Unsettled
      <4> QED
        BY <4>1, <4>2 DEF IInv, TaskInv
    <3> QED
      BY <3>1, <3>2
  <2>11. AccountedInv'
    <3>1. \A z \in Sockets : task'[z].at = "commit" => task[z] = task'[z]
      BY <2>4, <2>5
    <3>2. \A t, d : Accounts(t, d) => Accounts(t, d)'
      BY <1>1, <3>1 DEF Accounts, Displaces
    <3> QED
      BY <1>1, <1>3, <3>2 DEF IInv, AccountedInv
  <2>12. StoredInv'
    <3>1. fate'[c] = "none"
      BY <1>3, <2>1 DEF Unsettled
    <3> QED
      BY <1>1, <1>3, <2>2, <3>1 DEF IInv, StoredInv, Wanted
  <2> QED
    BY <1>1, <1>3, <2>6, <2>7, <2>9, <2>10, <2>11, <2>12, NotTasks DEF IInv
<1> QED
  BY <1>0, <1>2, <1>3 DEF StoreVariable

\* A set of natural numbers has a least element.
LEMMA LeastElement ==
  ASSUME NEW T \in SUBSET Nat, T # {}
  PROVE  \E x \in T : \A y \in T : x <= y
<1>1. PICK x \in T : \A y \in T : ~ (<<y, x>> \in OpToRel(<, Nat))
  BY NatLessThanWellFounded, WFMin
<1>2. \A y \in T : ~ (y < x)
  BY <1>1 DEF OpToRel
<1> QED
  BY <1>2

\* The newest open row of an action is one of them.
LEMMA NewestOpenFacts ==
  ASSUME IInv, NEW a, Open(a) # {}
  PROVE  /\ NewestOpen(a) \in 1..Len(row)
         /\ row[NewestOpen(a)].action = a
         /\ row[NewestOpen(a)].request = NoCall
<1>1. Len(row) \in Nat
  BY LenProperties DEF IInv, Types
<1>2. Open(a) \in SUBSET (1..Len(row))
  BY DEF Open
<1> DEFINE T == {Len(row) - t : t \in Open(a)}
<1>3. T \in SUBSET Nat /\ T # {}
  BY <1>1, <1>2
<1>4. PICK x \in T : \A y \in T : x <= y
  BY <1>3, LeastElement
<1>5. PICK t \in Open(a) : x = Len(row) - t
  BY <1>4
<1>6. \A u \in Open(a) : u <= t
  <2> TAKE u \in Open(a)
  <2>1. Len(row) - u \in T
    OBVIOUS
  <2>2. Len(row) - t <= Len(row) - u
    BY <1>4, <1>5, <2>1
  <2>3. t \in 1..Len(row) /\ u \in 1..Len(row)
    BY <1>2
  <2> QED
    BY <1>1, <2>2, <2>3
<1>7. NewestOpen(a) \in Open(a)
  BY <1>6 DEF NewestOpen
<1> QED
  BY <1>7 DEF Open

LEMMA QueryTriggerIInv ==
  ASSUME IInv, NEW s \in Sockets, QueryTrigger(s)
  PROVE  IInv'
<1>0. PICK c, a, t : c = task[s].call /\ a = made[c].action /\ t = NewestOpen(a)
  OBVIOUS
<1>1. /\ task[s].at = "query"
      /\ UNCHANGED <<row, mpc, result, made, inbox, stored, fate>>
  BY DEF QueryTrigger
<1>2. task' = [task EXCEPT ![s] =
        IF Open(a) # {} THEN [@ EXCEPT !.at = "commit", !.trigger = t]
                        ELSE [@ EXCEPT !.at = "reply"]]
  BY <1>0 DEF QueryTrigger
<1>3. /\ task \in [Sockets -> Tasks] /\ Unsettled(s, c)
      /\ \A k \in 1..Len(inbox[s]) : c < inbox[s][k]
      /\ stored[c] = Wanted(c)
  BY <1>0, <1>1, Handling DEF IInv, Types
<1>4. Open(a) # {} => /\ t \in 1..Len(row) /\ t \in Nat
                      /\ row[t].action = a /\ row[t].request = NoCall
  BY <1>0, NewestOpenFacts
<1>5. /\ task' \in [Sockets -> Tasks]
      /\ task'[s].call = c /\ task'[s].at \in {"commit", "reply"}
      /\ task'[s].at = "commit" =>
           /\ task'[s].trigger = t
           /\ t \in 1..Len(row) /\ row[t].action = a /\ row[t].request = NoCall
      /\ \A z \in Sockets : z # s => task'[z] = task[z]
  <2>1. CASE Open(a) # {}
    BY <1>0, <1>2, <1>3, <1>4, <2>1 DEF Tasks, Labels
  <2>2. CASE Open(a) = {}
    BY <1>0, <1>2, <1>3, <2>2 DEF Tasks, Labels
  <2> QED
    BY <2>1, <2>2
<1>6. Types'
  BY <1>1, <1>5 DEF IInv, Types
<1>7. FutureInv' /\ InboxInv' /\ StoredInv'
  BY <1>1 DEF IInv, FutureInv, InboxInv, StoredInv, Unsettled, Wanted
<1>8. TaskInv'
  <2> SUFFICES ASSUME NEW z \in Sockets, task'[z] # Idle,
                      NEW d, d = task'[z].call,
                      NEW u, u = task'[z].trigger
               PROVE  /\ Unsettled(z, d)
                      /\ \A k \in 1..Len(inbox[z]) : d < inbox[z][k]
                      /\ task'[z].at # "idle"
                      /\ task'[z].at = "store" => stored[d] < Wanted(d)
                      /\ task'[z].at # "store" => stored[d] = Wanted(d)
                      /\ task'[z].at = "commit" =>
                           u \in 1..Len(row) /\ row[u].action = made[d].action
    BY <1>1 DEF TaskInv, Idle, NoCall, NoTrigger, Unsettled, Wanted
  <2>1. CASE z = s
    <3>1. d = c /\ task'[z].at \in {"commit", "reply"}
      BY <1>5, <2>1
    <3>2. task'[z].at = "commit" => u \in 1..Len(row) /\ row[u].action = made[d].action
      BY <1>0, <1>5, <2>1, <3>1
    <3> QED
      BY <1>3, <2>1, <3>1, <3>2
  <2>2. CASE z # s
    BY <1>5, <2>2 DEF IInv, TaskInv
  <2> QED
    BY <2>1, <2>2
<1>9. AccountedInv'
  <2>1. \A u, d : Accounts(u, d) => Accounts(u, d)'
    BY <1>1, <1>5 DEF Accounts, Displaces
  <2> QED
    BY <1>1, <2>1 DEF IInv, AccountedInv
<1> QED
  BY <1>1, <1>6, <1>7, <1>8, <1>9, NotTasks DEF IInv

LEMMA CommitTriggerIInv ==
  ASSUME IInv, NEW s \in Sockets, CommitTrigger(s)
  PROVE  IInv'
<1>0. PICK c, t : c = task[s].call /\ t = task[s].trigger
  OBVIOUS
<1>1. /\ task[s].at = "commit"
      /\ UNCHANGED <<mpc, result, made, inbox, stored>>
  BY DEF CommitTrigger
<1>2. CASE UNCHANGED row /\ Finish(s, "failed")
  BY <1>1, <1>2, FinishIInv
<1>3. CASE /\ row' = [row EXCEPT ![t].request = c]
           /\ Finish(s, "matched")
  <2>1. /\ c \in 1..Len(made) /\ c \in Calls /\ c \in Nat /\ c # NoCall
        /\ made[c].socket = s /\ stored[c] = Wanted(c)
        /\ fate[c] = "none"
        /\ \A u \in 1..Len(row) : row[u].request # NoCall => row[u].request # c
    BY <1>0, <1>1, Handling DEF Unsettled, NoCall
  <2>2. t \in 1..Len(row) /\ row[t].action = made[c].action /\ row \in Seq(Rows)
    BY <1>0, <1>1 DEF IInv, TaskInv, Types, Idle
  <2>3. /\ row' \in Seq(Rows) /\ Len(row') = Len(row)
        /\ row'[t] = [row[t] EXCEPT !.request = c]
        /\ \A u \in 1..Len(row) : u # t => row'[u] = row[u]
    <3>1. row[t] \in Rows
      BY <2>2, ElementOfSeq
    <3>2. [row[t] EXCEPT !.request = c] \in Rows
      BY <2>1, <3>1 DEF Rows
    <3>3. row' = [row EXCEPT ![t] = [row[t] EXCEPT !.request = c]]
      BY <1>3
    <3> QED
      BY <2>2, <3>2, <3>3, UpdateFacts
  <2>4. /\ row'[t].request = c
        /\ \A u \in 1..Len(row) : row'[u].action = row[u].action
    <3>1. row[t] \in Rows
      BY <2>2, ElementOfSeq
    <3> QED
      BY <2>3, <3>1 DEF Rows
  <2>5. /\ task' \in [Sockets -> Tasks] /\ task'[s] = Idle
        /\ \A z \in Sockets : z # s => task'[z] = task[z]
        /\ fate' \in [Calls -> Fates] /\ fate'[c] = "matched"
        /\ \A d \in Calls : d # c => fate'[d] = fate[d]
        /\ "matched" \in Fates \ {"none"}
    BY <1>0, <1>1, <1>3, FinishFacts DEF Fates
  <2>6. Types'
    BY <1>1, <2>3, <2>5 DEF IInv, Types
  <2>7. FutureInv' /\ InboxInv' /\ TaskInv' /\ StoredInv'
    BY <1>0, <1>1, <1>3, <2>1, <2>3, <2>4, <2>5, FinishThreads
  <2>8. \A u \in 1..Len(row) : row[u].request # NoCall =>
          row[u].request \in Calls /\ row[u].request # c
    BY <2>1, TriggerMatchingAssumption, LenProperties DEF IInv, Types, RowInv, Calls
  <2>9. RowInv'
    <3> SUFFICES ASSUME NEW u \in 1..Len(row), row'[u].request # NoCall
                 PROVE  /\ row'[u].request \in 1..Len(made)
                        /\ made[row'[u].request].action = row'[u].action
                        /\ fate'[row'[u].request] = "matched"
                        /\ \A v \in 1..Len(row) : row'[v].request = row'[u].request => v = u
      BY <1>1, <2>3 DEF RowInv
    <3>1. CASE u = t
      BY <2>1, <2>2, <2>3, <2>4, <2>5, <2>8, <3>1
    <3>2. CASE u # t
      <4>1. row'[u] = row[u] /\ row[u].request \in Calls /\ row[u].request # c
        BY <2>3, <2>8, <3>2
      <4>2. /\ row[u].request \in 1..Len(made)
            /\ made[row[u].request].action = row[u].action
            /\ fate[row[u].request] = "matched"
            /\ \A v \in 1..Len(row) : row[v].request = row[u].request => v = u
        BY <4>1 DEF IInv, RowInv
      <4>3. \A v \in 1..Len(row) : row'[v].request = row'[u].request => v = u
        BY <2>3, <2>4, <4>1, <4>2
      <4> QED
        BY <2>5, <4>1, <4>2, <4>3
    <3> QED
      BY <3>1, <3>2
  <2>10. AccountedInv'
    <3> SUFFICES ASSUME NEW d \in Calls, fate'[d] = "matched"
                 PROVE  \E u \in 1..Len(row) : Accounts(u, d)'
      BY <2>3 DEF AccountedInv
    <3>1. CASE d = c
      <4>1. Accounts(t, c)'
        BY <1>0, <1>1, <2>1, <2>4, <2>5 DEF Accounts, Idle
      <4> QED
        BY <2>2, <3>1, <4>1
    <3>2. CASE d # c
      <4>1. PICK u \in 1..Len(row) : Accounts(u, d)
        BY <2>5, <3>2 DEF IInv, AccountedInv
      <4>2. \A z \in Sockets : task'[z].at = "commit" /\ task'[z].trigger = u =>
              z # made[d].socket
        BY <2>5, <4>1 DEF Accounts, Idle
      <4>3. CASE u # t
        BY <1>1, <2>3, <4>1, <4>2, <4>3 DEF Accounts, Displaces
      <4>4. CASE u = t
        <5>1. made[d].action = row[t].action
          BY <4>1, <4>4 DEF Accounts, Displaces, IInv, RowInv
        <5>2. made[d].socket # s
          BY <1>0, <1>1, <4>1, <4>4 DEF Accounts
        <5> QED
          BY <1>1, <2>1, <2>2, <2>4, <4>2, <4>4, <5>1, <5>2 DEF Accounts, Displaces
      <4> QED
        BY <4>3, <4>4
    <3> QED
      BY <3>1, <3>2
  <2>11. ResultInv'
    <3>1. \A u \in 1..Len(row) : row[u].request # NoCall => row'[u].request # NoCall
      BY <2>1, <2>3, <2>4
    <3> QED
      BY <1>1, <2>3, <3>1 DEF IInv, ResultInv, Newest
  <2> QED
    BY <2>6, <2>7, <2>9, <2>10, <2>11 DEF IInv
<1> QED
  BY <1>0, <1>2, <1>3 DEF CommitTrigger

LEMMA ReplyIInv ==
  ASSUME IInv, NEW s \in Sockets, Reply(s)
  PROVE  IInv'
<1>1. PICK f \in {"answered", "failed"} : Finish(s, f)
  BY DEF Reply
<1> QED
  BY <1>1, FinishIInv DEF Reply

-----------------------------------------------------------------------------
(* The theorems *)

LEMMA NextIInv ==
  ASSUME IInv, [Next]_vars
  PROVE  IInv'
<1>1. CASE UNCHANGED vars
  <2>1. Types' /\ FutureInv' /\ StoredInv' /\ InboxInv'
    BY <1>1 DEF vars, IInv, Types, FutureInv, StoredInv, InboxInv, Unsettled, Wanted
  <2>2. TaskInv' /\ AccountedInv'
    BY <1>1 DEF vars, IInv, TaskInv, AccountedInv, Accounts, Displaces, Unsettled, Wanted
  <2> QED
    BY <1>1, <2>1, <2>2, NotTasks DEF vars, IInv
<1>2. CASE CreateTrigger
  BY <1>2, CreateTriggerIInv
<1>3. CASE AskCsms
  BY <1>3, AskCsmsIInv
<1>4. CASE PollTrigger
  BY <1>4, PollTriggerIInv
<1>5. ASSUME NEW s \in Sockets, CsmsCall(s) \/ ConnectionCloses(s) \/ ReceiveCall(s)
      PROVE  IInv'
  BY <1>5, CsmsCallIInv, ConnectionClosesIInv, ReceiveCallIInv
<1>6. ASSUME NEW s \in Sockets, HandleCall(s)
      PROVE  IInv'
  BY <1>6, StoreVariableIInv, QueryTriggerIInv, CommitTriggerIInv, ReplyIInv
     DEF HandleCall
<1> QED
  BY <1>1, <1>2, <1>3, <1>4, <1>5, <1>6 DEF Next

\* The invariant of on_call_message and send_trigger_and_wait.
THEOREM Invariant == Spec => []IInv
<1>1. IInv /\ [Next]_vars => IInv'
  BY NextIInv
<1> QED
  BY <1>1, InitIInv, PTL DEF Spec

\* on_call_message records a CALL in at most one send_trigger row, of its own
\* action, and loses a matched CALL only to one of another connection that was
\* committed between its query and its commit; send_trigger_and_wait reports
\* success only for a row that has its request.
THEOREM CallMatchedOnce == Spec => []MatchedOnce
<1>1. IInv => MatchedOnce
  BY DEF IInv, RowInv, AccountedInv, Accounts, ResultInv, MatchedOnce
<1> QED
  BY <1>1, Invariant, PTL

\* on_call_message answers or matches a SetVariables CALL only when every one of
\* its variables is in the database.
THEOREM VariablesStoredFirst == Spec => []AcceptedIsStored
<1>1. IInv => AcceptedIsStored
  BY DEF IInv, StoredInv, AcceptedIsStored
<1> QED
  BY <1>1, Invariant, PTL
=============================================================================
