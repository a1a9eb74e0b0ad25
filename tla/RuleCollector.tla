---------------------------- MODULE RuleCollector ----------------------------
(***************************************************************************)
(* rule_collector.py: every object of the specification (primitive types,  *)
(* messages, data types) is put to the language model until it answers the *)
(* end mark, at most RETRY_MAX_CNT times.  The script first resumes one    *)
(* collection from a given message on, then makes new ones.  The rows of   *)
(* the one global session are in `session' until a commit moves them to    *)
(* `db'; the script may be killed, or a flush may raise, at any point.     *)
(***************************************************************************)
EXTENDS Naturals, FiniteSets

CONSTANTS
  NObject,       \* objects of the specification, in the order of the loops
  First,         \* the message the resumed collection goes on with
  repeat_cnt,    \* collections made after the resumed one
  RETRY_MAX_CNT

CollectorAssumption ==
  /\ NObject \in Nat \ {0} /\ First \in 1..NObject
  /\ repeat_cnt \in Nat /\ RETRY_MAX_CNT \in Nat \ {0}

VARIABLES
  pc,          \* "register", "answer", "collection", "done" or "crashed"
  collection,  \* rule_collect_entity: 0 is the resumed one
  obj,         \* the object that is registered
  retry_dto,   \* retry (0: no retry_dto) and the call error_content is from
  pages,       \* additional_page_request_list: the calls that asked for pages
  ask,         \* what the request on its way shows to the model
  session,     \* rows added and not committed
  db           \* committed rows

vars == <<pc, collection, obj, retry_dto, pages, ask, session, db>>

\* What the model answers; "nothing": no rule and no page, or the call or the
\* parsing of the answer raises.
Answers == {"end", "rules", "pages", "both", "nothing"}
HasRules == {"rules", "both"}
HasPages == {"pages", "both"}

Row(kind, call, answer) ==
  [kind |-> kind, collection |-> collection, obj |-> obj, call |-> call, answer |-> answer]

\* The calls of a registration are numbered from 1; an earlier run of the
\* script may have left a response of the object it stopped at, number 0.
EarlierLog ==
  [kind |-> "log", collection |-> 0, obj |-> First, call |-> 0, answer |-> "rules"]

NoRetry == [retry |-> 0, error_content |-> 0]
NoAsk == [quoted |-> 0, previous |-> {}, pages |-> {}]

Init ==
  /\ pc = "register" /\ collection = 0 /\ obj = First
  /\ retry_dto = NoRetry /\ pages = {} /\ ask = NoAsk
  /\ session = {} /\ db \in {{}, {EarlierLog}}

-----------------------------------------------------------------------------
\* The loops over the objects, after register returned.
NextObject ==
  /\ retry_dto' = NoRetry /\ pages' = {}
  /\ IF obj < NObject
     THEN pc' = "register" /\ obj' = obj + 1
     ELSE pc' = (IF collection < repeat_cnt THEN "collection" ELSE "done") /\ obj' = obj
  /\ UNCHANGED collection

\* A new rule_collect_entity; its commit takes along what is in the session.
NewCollection ==
  /\ pc = "collection"
  /\ collection' = collection + 1 /\ obj' = 1 /\ pc' = "register"
  /\ db' = db \cup session /\ session' = {}
  /\ UNCHANGED <<retry_dto, pages, ask>>

RetriesLeft == retry_dto.retry < RETRY_MAX_CNT

\* register with no retries left: a fail row, without a commit.
register_fail_cause ==
  /\ pc = "register" /\ ~RetriesLeft
  /\ session' = session \cup {Row("fail", 0, "none")}
  /\ NextObject
  /\ UNCHANGED <<ask, db>>

\* The logged responses of this object in this collection.
append_previous_responses ==
  {r.call : r \in {s \in db : s.kind = "log" /\ s.collection = collection /\ s.obj = obj}}

\* register up to gpt_module.run.
Ask ==
  /\ pc = "register" /\ RetriesLeft
  /\ ask' = [quoted |-> retry_dto.error_content,
             previous |-> append_previous_responses, pages |-> pages]
  /\ pc' = "answer"
  /\ UNCHANGED <<collection, obj, retry_dto, pages, session, db>>

call == retry_dto.retry + 1

\* Mutant of Logged: the session is left uncommitted.
LoggedUncommitted(answer) ==
  /\ db' = db \cup {Row("log", call, answer)} \cup
       (IF answer \in HasRules THEN {Row("rule", call, answer)} ELSE {})
  /\ UNCHANGED session

\* The log row and the rules of the answer are committed together.
Logged(answer) ==
  /\ db' = db \cup session \cup {Row("log", call, answer)} \cup
       (IF answer \in HasRules THEN {Row("rule", call, answer)} ELSE {})
  /\ session' = {}

\* Anything but the end mark: register again.  A retry_dto that is there only
\* counts; error_content stays that of the first call.
Retry(answer) ==
  /\ retry_dto' = [retry |-> call, error_content |->
                     IF retry_dto = NoRetry THEN call ELSE retry_dto.error_content]
  /\ pages' = IF answer \in HasPages THEN pages \cup {call} ELSE pages
  /\ pc' = "register"
  /\ UNCHANGED <<collection, obj>>

\* register from gpt_module.run on.
Answer(answer) ==
  /\ pc = "answer"
  /\ Logged(answer)
  /\ IF answer = "end" THEN NextObject ELSE Retry(answer)
  /\ UNCHANGED ask

\* The script is killed, a flush raises, or the resumed collection is missing.
Crash ==
  /\ pc \in {"register", "answer", "collection"}
  /\ pc' = "crashed" /\ session' = {}
  /\ UNCHANGED <<collection, obj, retry_dto, pages, ask, db>>

Finished == pc \in {"done", "crashed"} /\ UNCHANGED vars

Collect ==
  \/ NewCollection \/ register_fail_cause \/ Ask
  \/ \E answer \in Answers : Answer(answer)

Next == Collect \/ Crash \/ Finished

Spec == Init /\ [][Next]_vars

-----------------------------------------------------------------------------
Rows == [kind : {"log", "rule", "fail"}, collection : 0..repeat_cnt, obj : 1..NObject,
         call : Nat, answer : Answers \cup {"none"}]

\* Type invariant: an object is registered with at most RETRY_MAX_CNT calls.
TypeOK ==
  /\ pc \in {"register", "answer", "collection", "done", "crashed"}
  /\ collection \in 0..repeat_cnt /\ obj \in 1..NObject
  /\ retry_dto \in [retry : 0..RETRY_MAX_CNT, error_content : 0..RETRY_MAX_CNT]
  /\ pages \in SUBSET (1..RETRY_MAX_CNT)
  /\ ask \in [quoted : 0..RETRY_MAX_CNT, previous : SUBSET (0..RETRY_MAX_CNT),
              pages : SUBSET (1..RETRY_MAX_CNT)]
  /\ session \subseteq Rows /\ db \subseteq Rows

\* The registrations that returned, and the last of them.
Returned ==
  {<<c, o>> \in (0..repeat_cnt) \X (1..NObject) :
     /\ c > 0 \/ o >= First
     /\ \/ c < collection
        \/ c = collection /\ o < obj
        \/ c = collection /\ pc \in {"collection", "done"}}

Ended(rows, x) ==
  \E r \in rows : <<r.collection, r.obj>> = x /\ r.kind = "log" /\ r.answer = "end"
Failed(rows, x) == \E r \in rows : <<r.collection, r.obj>> = x /\ r.kind = "fail"

\* An object register has returned from has either answered the end mark or
\* has a fail row, never both.
Settled ==
  pc # "crashed" =>
    \A x \in Returned : Ended(db \cup session, x) # Failed(db \cup session, x)

\* register_fail_cause does not commit.  Whenever the script stops, a fail row
\* is lost only if no later object answered: at most one is.
AtMostOneFailureLost ==
  Cardinality({x \in Returned : ~Ended(db, x) /\ ~Failed(db, x)}) <= 1

\* Rules are stored together with the response they come from, also when the
\* script is killed between two calls.
RulesAreLogged ==
  \A r \in db : r.kind = "rule" =>
    \E l \in db : l = [r EXCEPT !.kind = "log"]

\* A request shows every response the object already got in its collection,
\* those of an earlier run of the script included, and has every page attached
\* that was asked for in this registration: the model is told not to repeat
\* itself and what to go on with.
RequestIsComplete ==
  pc = "answer" =>
    /\ ask.previous = 1..retry_dto.retry \cup
         (IF EarlierLog \in db /\ collection = 0 /\ obj = First THEN {0} ELSE {})
    /\ ask.pages = {r.call : r \in {s \in db : /\ s.kind = "log" /\ s.answer \in HasPages
                                              /\ s.collection = collection /\ s.obj = obj
                                              /\ s.call > 0}}

\* "This question is a retry, and the response you previously provided is as
\* follows": a retry quotes the response to the call before it.
RetryQuotesPrevious ==
  pc = "answer" => ask.quoted = retry_dto.retry

=============================================================================
