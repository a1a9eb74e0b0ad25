-------------------------- MODULE ScenarioCollector --------------------------
(***************************************************************************)
(* scenario_collector.py: every scenario page is put to the language model *)
(* until it answers with scenarios and asks for nothing more, or with the  *)
(* end mark, at most RETRY_MAX_CNT times.  Each call ends in a commit; the *)
(* script may be killed, or a commit may raise, at any point.              *)
(***************************************************************************)
EXTENDS Naturals, FiniteSets

CONSTANTS
  NPage,         \* scenario pages of the specification
  RETRY_MAX_CNT

ScenarioCollectorAssumption ==
  NPage \in Nat \ {0} /\ RETRY_MAX_CNT \in Nat \ {0}

VARIABLES
  pc,         \* "register", "answer", "done" or "crashed"
  page,       \* scenario_page_dto
  retry_dto,  \* retry (0: no retry_dto) and the call error_content is from
  info,       \* additional_info_request of the last response, and its call
  total,      \* total_additional_page_request_list: the calls that asked
  ask,        \* what the request on its way shows to the model
  db          \* committed rows

vars == <<pc, page, retry_dto, info, total, ask, db>>

\* An additional_info_request: None, or an object that asks for schemas, for
\* pages, for both or for neither.
None == {}
Requests == {None} \cup {{"object"} \cup asked : asked \in SUBSET {"schemas", "pages"}}

\* The end mark, a call or a parsing that raises, or a result with or without
\* scenarios and with or without a request.
Results == [kind : {"result"}, list : BOOLEAN, info : Requests]
Answers == Results \cup
  [kind : {"end", "raises"}, list : {FALSE}, info : {None}]
NoAnswer == [kind |-> "none", list |-> FALSE, info |-> None]

\* The two names of a page: rows are logged under the one and looked up under
\* the other.
scenario_name(p) == <<"scenario", p>>
figure_line(p) == <<"figure", p>>

Row(kind, name, call, answer) ==
  [kind |-> kind, page |-> page, name |-> name, call |-> call, answer |-> answer]

NoRetry == [retry |-> 0, error_content |-> 0]
NoInfo == [info |-> None, call |-> 0]
NoAsk == [quoted |-> 0, previous |-> {}, schemas |-> 0, pages |-> {}]

Init ==
  /\ pc = "register" /\ page = 1 /\ retry_dto = NoRetry
  /\ info = NoInfo /\ total = {} /\ ask = NoAsk /\ db = {}

-----------------------------------------------------------------------------
NextPage ==
  /\ IF page < NPage THEN pc' = "register" /\ page' = page + 1
                     ELSE pc' = "done" /\ page' = page
  /\ retry_dto' = NoRetry /\ info' = NoInfo /\ total' = {}

RetriesLeft == retry_dto.retry < RETRY_MAX_CNT

register_fail_cause ==
  /\ pc = "register" /\ ~RetriesLeft
  /\ db' = db \cup {Row("fail", scenario_name(page), 0, NoAnswer)}
  /\ NextPage
  /\ UNCHANGED ask

\* The newest logged responses, as many as there were retries.
append_previous_responses ==
  {r.call : r \in {s \in db : /\ s.kind = "log" /\ s.name = scenario_name(page)
                              /\ retry_dto.retry > 0}}

\* total_additional_page_request_list, extended by the last request.
RequestedPages == IF "pages" \in info.info THEN total \cup {info.call} ELSE total

\* register up to gpt_module.run.  Pages are attached only when the last
\* response asked for some.
Ask ==
  /\ pc = "register" /\ RetriesLeft
  /\ total' = RequestedPages
  /\ ask' = [quoted |-> retry_dto.error_content,
             previous |-> append_previous_responses,
             schemas |-> IF "schemas" \in info.info THEN info.call ELSE 0,
             pages |-> IF "pages" \in info.info THEN RequestedPages ELSE {}]
  /\ pc' = "answer"
  /\ UNCHANGED <<page, retry_dto, info, db>>

call == retry_dto.retry + 1

\* scenario_collect_list and not additional_info_request
Complete(answer) == answer.list /\ answer.info = None

is_clear(answer) == answer.kind = "end" \/ Complete(answer)

\* Mutant of Logged: the scenarios of every response are stored.
LoggedAll(answer) ==
  db' = db \cup {Row("log", figure_line(page), call, answer)} \cup
        (IF answer.list THEN {Row("detail", figure_line(page), call, answer)} ELSE {})

\* The log row, and the scenarios of a complete response.
Logged(answer) ==
  db' = db \cup {Row("log", figure_line(page), call, answer)} \cup
        (IF Complete(answer) THEN {Row("detail", figure_line(page), call, answer)} ELSE {})

\* Mutant of Retry: the retry_dto is not handed on.
RetryUncounted(answer) ==
  /\ retry_dto' = NoRetry
  /\ info' = [info |-> answer.info, call |-> IF answer.info = None THEN 0 ELSE call]
  /\ pc' = "register"
  /\ UNCHANGED <<page, total>>

\* A retry_dto that is there only counts; error_content stays that of the
\* first call.
Retry(answer) ==
  /\ retry_dto' = [retry |-> call, error_content |->
                     IF retry_dto = NoRetry THEN call ELSE retry_dto.error_content]
  /\ info' = [info |-> answer.info, call |-> IF answer.info = None THEN 0 ELSE call]
  /\ pc' = "register"
  /\ UNCHANGED <<page, total>>

\* register from gpt_module.run on.
Answer(answer) ==
  /\ pc = "answer"
  /\ Logged(answer)
  /\ IF is_clear(answer) THEN NextPage ELSE Retry(answer)
  /\ UNCHANGED ask

\* The script is killed, or pages, schemas or a commit cannot be had.
Crash ==
  /\ pc \in {"register", "answer"}
  /\ pc' = "crashed"
  /\ UNCHANGED <<page, retry_dto, info, total, ask, db>>

Finished == pc \in {"done", "crashed"} /\ UNCHANGED vars

Collect ==
  \/ register_fail_cause \/ Ask
  \/ \E answer \in Answers : Answer(answer)

Next == Collect \/ Crash \/ Finished

Spec == Init /\ [][Next]_vars

-----------------------------------------------------------------------------
\* Type invariant.
TypeOK ==
  /\ pc \in {"register", "answer", "done", "crashed"}
  /\ page \in 1..NPage
  /\ retry_dto \in [retry : 0..RETRY_MAX_CNT, error_content : 0..RETRY_MAX_CNT]
  /\ info \in [info : Requests, call : 0..RETRY_MAX_CNT]
  /\ total \subseteq 1..RETRY_MAX_CNT
  /\ ask \in [quoted : 0..RETRY_MAX_CNT, previous : SUBSET (1..RETRY_MAX_CNT),
              schemas : 0..RETRY_MAX_CNT, pages : SUBSET (1..RETRY_MAX_CNT)]
  /\ db \subseteq [kind : {"log", "detail", "fail"}, page : 1..NPage,
                   name : {scenario_name(p) : p \in 1..NPage}
                            \cup {figure_line(p) : p \in 1..NPage},
                   call : 0..RETRY_MAX_CNT, answer : Answers \cup {NoAnswer}]

Logs(p) == {r \in db : r.kind = "log" /\ r.page = p}
Details(p) == {r \in db : r.kind = "detail" /\ r.page = p}
Failed(p) == \E r \in db : r.kind = "fail" /\ r.page = p
Returned(p) == p < page \/ (p = page /\ pc = "done")

\* A page register has returned from was cleared or has a fail row, never
\* both; this is committed, and survives the end of the script.
SettledInDb ==
  \A p \in 1..NPage : Returned(p) =>
    (\E r \in Logs(p) : is_clear(r.answer)) # Failed(p)

\* The scenarios of a page come from one response, the last, which asked for
\* nothing more; retries do not pile up scenarios.
DetailsOfLastCall ==
  \A p \in 1..NPage : \A d \in Details(p) :
    /\ d.answer.info = None
    /\ \A r \in Logs(p) : r.call <= d.call
    /\ ~Failed(p)

\* When the last response asked for pages, the request shows them and all
\* pages asked for before: "Check whether the requested
\* additional_page_request_list from the previous round is included".
PagesServed ==
  pc = "answer" =>
    \A r \in Logs(page) :
      r.call = retry_dto.retry /\ "pages" \in r.answer.info =>
        ask.pages = {s.call : s \in {l \in Logs(page) : "pages" \in l.answer.info}}

=============================================================================
