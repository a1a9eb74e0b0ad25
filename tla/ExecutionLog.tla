---------------------------- MODULE ExecutionLog ----------------------------
(***************************************************************************)
(* What the test controller promises about the rows of test_execution that *)
(* it writes for one CSMS, and that the analysis in validator.py relies    *)
(* on: rows appear one after the other, a response is recorded once and    *)
(* only for a row that exists, and an error name goes to the newest row or *)
(* the one before it.  EventController implements this specification.      *)
(***************************************************************************)
EXTENDS Naturals

CONSTANTS NExec, Answers

VARIABLES n, response, error

NoAnswer == "none"
Execs == 1..NExec

logVars == <<n, response, error>>

Init ==
  /\ n = 0
  /\ response = [e \in Execs |-> NoAnswer]
  /\ error = [e \in Execs |-> "none"]

Create ==
  /\ n < NExec
  /\ n' = n + 1
  /\ UNCHANGED <<response, error>>

\* The first answer to a message that was created earlier, however late.
Answer(e, a) ==
  /\ e <= n /\ response[e] = NoAnswer
  /\ response' = [response EXCEPT ![e] = a]
  /\ UNCHANGED <<n, error>>

\* Only the newest execution is being waited for.
Timeout ==
  /\ n \in Execs
  /\ error' = [error EXCEPT ![n] = "Timeout 10"]
  /\ UNCHANGED <<n, response>>

SocketError(e) ==
  /\ e = n \/ e + 1 = n
  /\ error' = [error EXCEPT ![e] = "socket"]
  /\ UNCHANGED <<n, response>>

Next ==
  \/ Create
  \/ \E e \in Execs, a \in Answers : Answer(e, a)
  \/ Timeout
  \/ \E e \in Execs : SocketError(e)

Spec == Init /\ [][Next]_logVars

=============================================================================
