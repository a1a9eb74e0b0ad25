-------------------------- MODULE DirectionCollector --------------------------
(***************************************************************************)
(* message_direction_collector.py: the language model names the sender and *)
(* the receiver of every message.  register calls itself from its except   *)
(* clause, so the calls of a message nest, and each logs and commits in    *)
(* its finally clause while they unwind.  The script may be killed, or a   *)
(* flush may raise, at any point.                                          *)
(***************************************************************************)
EXTENDS Naturals, Sequences, FiniteSets

CONSTANTS
  NMessage,      \* messages of the specification
  Described,     \* the ones with a description
  RETRY_MAX_CNT

DirectionAssumption ==
  /\ NMessage \in Nat \ {0} /\ Described \subseteq 1..NMessage
  /\ RETRY_MAX_CNT \in Nat \ {0}

VARIABLES
  pc,         \* "register", "answer", "finally", "end", "done" or "crashed"
  message,    \* current_message
  retry_dto,  \* of the call that starts: retry (0: none), error_content, exception
  stack,      \* answers of the calls of register that have not returned
  quoted,     \* the call whose response the request on its way quotes
  session,    \* rows added and not committed
  db          \* committed rows

vars == <<pc, message, retry_dto, stack, quoted, session, db>>

\* Directions; IMPOSSIBLE; a known or an unknown reference message is needed;
\* a text that is no direction; or the call raises and leaves no text.
Answers == {"direction", "impossible", "more", "unsupported", "invalid", "raises"}
Retried == {"impossible", "more", "invalid", "raises"}

NoRetry == [retry |-> 0, error_content |-> 0, exception |-> "none"]

Row(kind, nr, value) == [kind |-> kind, message |-> message, call |-> nr, value |-> value]

Init ==
  /\ pc = "register" /\ message = 1 /\ retry_dto = NoRetry
  /\ stack = <<>> /\ quoted = 0 /\ session = {} /\ db = {}

-----------------------------------------------------------------------------
\* The loop over the messages, after the outermost register returned.
NextMessage ==
  /\ IF message < NMessage THEN pc' = "register" /\ message' = message + 1
                           ELSE pc' = "end" /\ message' = message
  /\ retry_dto' = NoRetry

get_fail_cause == IF retry_dto.exception = "impossible" THEN "I" ELSE "R"

RetriesLeft == retry_dto.retry < RETRY_MAX_CNT

\* register at the retry limit returns to the except clause of its caller.
GiveUp ==
  /\ pc = "register" /\ ~RetriesLeft
  /\ session' = session \cup {Row("fail", 0, get_fail_cause)}
  /\ pc' = "finally"
  /\ UNCHANGED <<message, retry_dto, stack, quoted, db>>

\* A message without description: a fail row, without a commit.
NoDescription ==
  /\ pc = "register" /\ RetriesLeft /\ message \notin Described
  /\ session' = session \cup {Row("fail", 0, "I")}
  /\ NextMessage
  /\ UNCHANGED <<stack, quoted, db>>

\* register up to gpt_module.run.
Ask ==
  /\ pc = "register" /\ RetriesLeft /\ message \in Described
  /\ quoted' = retry_dto.error_content
  /\ pc' = "answer"
  /\ UNCHANGED <<message, retry_dto, stack, session, db>>

call == retry_dto.retry + 1

\* Every retry gets a new GPTRetryDTO with its own response and exception.
new_retry_dto(answer) == [retry |-> call, error_content |-> call, exception |-> answer]

\* The row of a direction that passes validate, or the fail row of a
\* reference message that does not exist.
Validated(answer) ==
  IF answer = "direction" THEN {Row("detail", call, answer)}
  ELSE IF answer = "unsupported" THEN {Row("fail", 0, "I")}
  ELSE {}

\* Mutant of Answer: a response is logged before the retry.
AnswerLogged(answer) ==
  /\ pc = "answer"
  /\ stack' = Append(stack, answer)
  /\ session' = Validated(answer)
  /\ db' = db \cup session \cup {Row("log", call, answer)}
  /\ IF answer \in Retried
     THEN pc' = "register" /\ retry_dto' = new_retry_dto(answer)
     ELSE pc' = "finally" /\ UNCHANGED retry_dto
  /\ UNCHANGED <<message, quoted>>

\* The try clause and its handlers: the call ends, or register nests.
Answer(answer) ==
  /\ pc = "answer"
  /\ stack' = Append(stack, answer)
  /\ session' = session \cup Validated(answer)
  /\ IF answer \in Retried
     THEN pc' = "register" /\ retry_dto' = new_retry_dto(answer)
     ELSE pc' = "finally" /\ UNCHANGED retry_dto
  /\ UNCHANGED <<message, quoted, db>>

\* The finally clause of the innermost call: its log row if there was a
\* response, and a commit of all that is in the session.
Finally ==
  LET nr == Len(stack)
  IN /\ pc = "finally"
     /\ db' = db \cup session \cup
          (IF stack[nr] = "raises" THEN {} ELSE {Row("log", nr, stack[nr])})
     /\ session' = {}
     /\ stack' = SubSeq(stack, 1, nr - 1)
     /\ IF nr = 1 THEN NextMessage ELSE UNCHANGED <<pc, message, retry_dto>>
     /\ UNCHANGED quoted

\* The commit after the loop.
End ==
  /\ pc = "end" /\ pc' = "done"
  /\ db' = db \cup session /\ session' = {}
  /\ UNCHANGED <<message, retry_dto, stack, quoted>>

Crash ==
  /\ pc \notin {"done", "crashed"}
  /\ pc' = "crashed" /\ session' = {}
  /\ UNCHANGED <<message, retry_dto, stack, quoted, db>>

Finished == pc \in {"done", "crashed"} /\ UNCHANGED vars

Next ==
  \/ GiveUp \/ NoDescription \/ Ask \/ Finally \/ End \/ Crash \/ Finished
  \/ \E answer \in Answers : Answer(answer)

Spec == Init /\ [][Next]_vars

-----------------------------------------------------------------------------
\* Type invariant.
TypeOK ==
  /\ pc \in {"register", "answer", "finally", "end", "done", "crashed"}
  /\ message \in 1..NMessage
  /\ retry_dto \in [retry : 0..RETRY_MAX_CNT, error_content : 0..RETRY_MAX_CNT,
                    exception : Retried \cup {"none"}]
  /\ Len(stack) <= RETRY_MAX_CNT /\ \A k \in DOMAIN stack : stack[k] \in Answers
  /\ quoted \in 0..RETRY_MAX_CNT
  /\ session \cup db \subseteq
       [kind : {"detail", "fail", "log"}, message : 1..NMessage,
        call : 0..RETRY_MAX_CNT, value : Answers \cup {"I", "R"}]

Outcomes(rows, m) == {r \in rows : r.kind # "log" /\ r.message = m}

\* A message register has returned from has exactly one row that says how it
\* ended, its direction or a failure, however deep the retries went.  When the
\* script comes to its end that row is committed, also the fail row of a last
\* message without description.
OneOutcome ==
  pc # "crashed" =>
    \A m \in 1..NMessage :
      m < message \/ pc \in {"end", "done"} =>
        Cardinality(Outcomes(IF pc = "done" THEN db ELSE db \cup session, m)) = 1

\* A killed script leaves no message with responses in the log but without its
\* outcome: the outcome is committed with the first response that is logged.
OutcomeBeforeLog ==
  \A r \in db : r.kind = "log" => Outcomes(db, r.message) # {}

\* The cause of a failure says what the last response was: IMPOSSIBLE or an
\* unknown reference, and not what an earlier one was.
CauseOfLastAnswer ==
  \A f \in session : f.kind = "fail" /\ f.message \in Described /\ pc = "finally" =>
    (f.value = "I" <=> stack[Len(stack)] \in {"impossible", "unsupported"})

\* "This question is a retry, and the response you previously provided is as
\* follows": a retry quotes the response to the call before it.
RetryQuotesPrevious ==
  pc = "answer" => quoted = Len(stack)

=============================================================================
