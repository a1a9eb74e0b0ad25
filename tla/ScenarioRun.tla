----------------------------- MODULE ScenarioRun -----------------------------
(***************************************************************************)
(* The rule based scenario test, one scenario after the other.  For every  *)
(* request of a scenario and every combination of its rules (all active,   *)
(* or one of them switched off, the "determined" rule)                     *)
(* generate_stepwise_combinations_test plays the scenario up to that       *)
(* request under a charging station of its own, a "set".  All requests     *)
(* before the last are generated with every rule active.  The generators,  *)
(* and the fix values inside them, live as long as the scenario;           *)
(* PayloadContext lives as long as the set.                                *)
(*                                                                         *)
(* A message is abstracted to the fields the context looks back at.  How a *)
(* generated message is delivered is the subject of EventController and    *)
(* TriggerMatching.  A database call may fail anywhere: the session then   *)
(* refuses every further call until it is rolled back.                     *)
(***************************************************************************)
EXTENDS Integers, Sequences, FiniteSets, SequencesExt

CONSTANT
  Scenarios   \* scenario_set: a sequence of [acts, rules]
              \* acts: the action_list, a sequence of [type, msg, event,
              \*   trigger]; event and trigger are what the scenario fixes
              \*   eventType and triggerReason to, "any" if it fixes none
              \* rules: per action, the sequence of the rules of its generator

TransactionEvent == "TransactionEventRequest"
Authorize == "AuthorizeRequest"
ActTypes == {"CS_TO_CSMS_REQUEST", "CS_TO_CSMS_RESPONSE", "CSMS_TO_CS_REQUEST"}
Events == {"Started", "Other"}
Triggers == {"CablePluggedIn", "Other"}

\* The rules the code treats apart: on transactionInfo.transactionId, on seqNo,
\* once per transaction on idToken and on reservationId, evse only in the first
\* event after EV connection, and any other.
RuleKinds == {"transactionId", "seqNo", "idToken", "reservationId", "evse", "other"}
AllActive == "none"

\* With an empty scenario_set nothing happens.
ASSUME ScenarioRunAssumption ==
  /\ Scenarios # <<>>
  /\ \A k \in DOMAIN Scenarios :
       /\ Scenarios[k].acts \in Seq([type : ActTypes, msg : STRING,
                                     event : Events \cup {"any"},
                                     trigger : Triggers \cup {"any"}])
       /\ Scenarios[k].rules \in [DOMAIN Scenarios[k].acts -> Seq(RuleKinds)]

NoTx == <<0, 0>>     \* a transaction id is named by the set and the action that drew it
Bad == -1            \* a seqNo that breaks its rule

VARIABLES
  scenario,  \* position in scenario_set
  step,      \* position in generator_indices
  combo,     \* position in the combinations of that generator
  pc,        \* "scenario" before a scenario, "set" before a set, "act" inside
             \* it, "end" after the last set, "done"
  set,       \* number of the scenario_test_detail_set in its scenario
  i,         \* next action of the set
  seqNo,     \* seqNo
  context,   \* PayloadContext
  prepared,  \* act_prepare_once
  fix,       \* per action, the transactionId of its fix_value_container
  fail,      \* why messages of this set were not generated (fail_cause)
  session,   \* the database session: "ok", or "failed" until a rollback
  rows       \* per message of the context: "pending" in the session, "stored"
             \* with the set, "sent" (stored and then handed to a controller),
             \* or "lost" in a transaction that failed

vars == <<scenario, step, combo, pc, set, i, seqNo, context, prepared, fix, fail,
          session, rows>>

Acts == Scenarios[scenario].acts
Rules == Scenarios[scenario].rules

generator_indices ==
  SelectSeq([k \in 1..Len(Acts) |-> k], LAMBDA k : Acts[k].type = "CS_TO_CSMS_REQUEST")

generate_combinations(k) == <<AllActive>> \o Rules[k]

gen_idx == generator_indices[step]
determine_rule == generate_combinations(gen_idx)[combo]

PayloadContext ==
  [messages |-> <<>>,
   required_reservation_id |-> FALSE,
   required_id_token |-> FALSE,
   force_event_type |-> "none",
   ev_connection_trigger |-> FALSE]

Init ==
  /\ scenario = 1 /\ step = 1 /\ combo = 1 /\ set = 0 /\ i = 1 /\ seqNo = 0
  /\ pc = "scenario" /\ context = PayloadContext /\ prepared = FALSE /\ fix = <<>> /\ fail = {}
  /\ session = "ok" /\ rows = <<>>

\* The locals of a set start anew. They are reset where the set before ends, so
\* that what is left in them makes no states of its own.
NewLocals ==
  /\ i' = 1 /\ seqNo' = 0 /\ context' = PayloadContext /\ prepared' = FALSE
  /\ fail' = {} /\ rows' = <<>>

-----------------------------------------------------------------------------
(* What PayloadContext reads from the messages of the set *)

Is(m, name) == m.msg = name

TransactionEvents(c) ==
  SelectSeq(c.messages, LAMBDA m : Is(m, TransactionEvent))

\* First transaction event that has an id.
get_saved_transaction_id(c) ==
  LET known == SelectSeq(TransactionEvents(c), LAMBDA m : m.tx # NoTx)
  IN IF known = <<>> THEN NoTx ELSE Head(known).tx

is_first_transaction(c) == TransactionEvents(c) = <<>>

started_id_token(c) ==
  \E m \in Range(TransactionEvents(c)) : m.idToken /\ m.event = "Started"

\* Mutant: the search stops at the first transaction event.
first_event_without_reservation_id(c) ==
  TransactionEvents(c) = <<>> \/ ~Head(TransactionEvents(c)).reservationId

is_first_transaction_event_with_reservation_id(c) ==
  \A m \in Range(TransactionEvents(c)) : ~m.reservationId

\* TRUE while no earlier event reports an EV connection.
exist_ev_connection(c) ==
  \A m \in Range(TransactionEvents(c)) : ~m.cable /\ ~m.evse

is_first_transaction_event_after_ev_connection(c, cable) ==
  ~cable /\ exist_ev_connection(c)

is_first_transaction_event_after_authorization(c) ==
  \A j, k \in DOMAIN c.messages :
    j < k => ~(Is(c.messages[j], Authorize) /\ Is(c.messages[k], TransactionEvent))

-----------------------------------------------------------------------------
(* The messages a generator can return for action k *)

\* The fields of a transaction event that the rules leave open while all of
\* them are active.
ActiveFields(k, c) ==
  {f \in [event : Events, cable : BOOLEAN, evse : BOOLEAN,
          idToken : BOOLEAN, reservationId : BOOLEAN] :
     /\ f.event \in (CASE c.force_event_type # "none" -> {c.force_event_type}
                      [] Acts[k].event # "any" -> {Acts[k].event}
                      [] is_first_transaction(c) -> {"Started"}
                      [] OTHER -> Events)
     /\ Acts[k].trigger # "any" => f.cable = (Acts[k].trigger = "CablePluggedIn")
     /\ Acts[k].trigger = "any" /\ c.ev_connection_trigger => f.cable
     /\ c.ev_connection_trigger => f.evse
     /\ ~c.ev_connection_trigger =>
          (f.evse => is_first_transaction_event_after_ev_connection(c, f.cable))
     /\ is_first_transaction_event_after_authorization(c) \/ c.required_id_token
          => f.idToken
     /\ f.reservationId => is_first_transaction_event_with_reservation_id(c)
     /\ c.required_reservation_id /\ is_first_transaction_event_with_reservation_id(c)
          => f.reservationId}

Message(k, rule, seq, tx, f) ==
  [msg |-> Acts[k].msg, rule |-> rule, seqNo |-> seq, tx |-> tx, event |-> f.event,
   cable |-> f.cable, evse |-> f.evse, idToken |-> f.idToken,
   reservationId |-> f.reservationId]

\* create writes a forced eventType into every message of the set.
OtherFields(c) ==
  [event |-> c.force_event_type, cable |-> FALSE, evse |-> FALSE, idToken |-> FALSE,
   reservationId |-> FALSE]

\* A fixed transactionId is used as it is, otherwise a new one is drawn.
transactionId(k, x) == IF x = NoTx THEN <<set, k>> ELSE x

\* All rules active (generate_true_message_entity).
TrueMessages(k, c, x) ==
  IF Acts[k].msg = TransactionEvent
  THEN {Message(k, AllActive, seqNo, transactionId(k, x), f) : f \in ActiveFields(k, c)}
  ELSE {Message(k, AllActive, 0, NoTx, OtherFields(c))}

\* The determined rule needs an earlier event of the set to be broken against.
NoStartedToken(c, rule) == rule = "idToken" /\ ~started_id_token(c)
NoReservation(c, rule) ==
  rule = "reservationId" /\ is_first_transaction_event_with_reservation_id(c)
Unprepared(c, rule) == NoStartedToken(c, rule) \/ NoReservation(c, rule)

\* What breaking the determined rule does to a message.
Break(m, c, k, rule) ==
  CASE rule = "transactionId" -> {[m EXCEPT !.tx = t] : t \in {NoTx, <<set, k>>}}
    [] rule = "seqNo" -> {[m EXCEPT !.seqNo = Bad]}
    [] rule = "idToken" -> {[m EXCEPT !.idToken = TRUE, !.event = "Other"]}
    [] rule = "reservationId" -> {[m EXCEPT !.reservationId = TRUE]}
    [] rule = "evse" ->
         {[m EXCEPT !.evse = TRUE,
             !.cable = m.cable \/ is_first_transaction_event_after_ev_connection(c, m.cable)]}
    [] OTHER -> {m}

\* generate_message_entity for the combination under test.
DeterminedMessages(k, c, x, rule) ==
  IF rule = AllActive
  THEN TrueMessages(k, c, x)
  ELSE UNION {Break([m EXCEPT !.rule = rule], c, k, rule) : m \in TrueMessages(k, c, x)}

-----------------------------------------------------------------------------
(* The database session *)

Become(old, new) == [k \in DOMAIN rows |-> IF rows[k] = old THEN new ELSE rows[k]]

\* A commit stores what is pending in the session.
Committed == Become("pending", "stored")

\* Mutant of SessionFails: the handler of the action rolls the session back.
SessionFailsRolledBack(r) == session' = "ok" /\ rows' = r

\* A call of the session raises: its transaction is gone, with the rows r left.
\* The handler around the action goes on with the next one and neither rolls
\* back nor sets fail_cause.
SessionFails(r) == session' = "failed" /\ rows' = r

Lost == Become("pending", "lost")

-----------------------------------------------------------------------------
(* scenario_test *)

\* scenario_test_init: the actions get new generators without fix values.
BeginScenario ==
  /\ pc = "scenario" /\ session = "ok"
  /\ pc' = IF generator_indices = <<>> THEN "end" ELSE "set"
  /\ fix' = [k \in 1..Len(Acts) |-> NoTx]
  /\ UNCHANGED <<scenario, step, combo, set, i, seqNo, context, prepared, fail,
                 session, rows>>

\* An exception outside the sets, as the first commit of a scenario after a
\* session that failed, ends the whole test.
ScenarioRaises ==
  /\ pc = "scenario" /\ pc' = "done"
  /\ session' = "ok"
  /\ UNCHANGED <<scenario, step, combo, set, i, seqNo, context, prepared, fix, fail,
                 rows>>

\* The next scenario; nothing but the database and its session outlives the
\* one before.
EndScenario ==
  /\ pc = "end"
  /\ IF scenario < Len(Scenarios)
     THEN scenario' = scenario + 1 /\ pc' = "scenario"
     ELSE pc' = "done" /\ UNCHANGED scenario
  /\ step' = 1 /\ combo' = 1 /\ set' = 0 /\ fix' = <<>>
  /\ UNCHANGED <<i, seqNo, context, prepared, fail, session, rows>>

-----------------------------------------------------------------------------
(* generate_stepwise_combinations_test *)

NextCombo ==
  /\ NewLocals
  /\ UNCHANGED <<scenario, set, fix>>
  /\ \/ /\ combo < Len(generate_combinations(gen_idx))
        /\ combo' = combo + 1 /\ pc' = "set"
        /\ UNCHANGED step
     \/ /\ combo = Len(generate_combinations(gen_idx))
        /\ step < Len(generator_indices)
        /\ step' = step + 1 /\ combo' = 1 /\ pc' = "set"
     \/ /\ combo = Len(generate_combinations(gen_idx))
        /\ step = Len(generator_indices)
        /\ pc' = "end"
        /\ UNCHANGED <<step, combo>>

\* A new detail set and a reconnect under its name.
BeginSet ==
  /\ pc = "set" /\ pc' = "act" /\ session = "ok"
  /\ set' = set + 1
  /\ UNCHANGED <<scenario, step, combo, i, seqNo, context, prepared, fix, fail,
                 session, rows>>

\* The commit of the new set, reconnect or set_variables raises: the session is
\* rolled back and the combination given up.
SetRaises == pc = "set" /\ session' = "ok" /\ NextCombo

EndSet == pc = "act" /\ i > gen_idx /\ NextCombo /\ UNCHANGED session

InAct(type) == pc = "act" /\ i <= gen_idx /\ Acts[i].type = type

\* Mutant of set_fix_value: a transactionId that is fixed already is kept.
set_fix_value_once(x) == IF x # NoTx THEN x ELSE get_saved_transaction_id(context)

\* The container of an action after set_fix_value. It is never cleared; its
\* seqNo is set before every use and is left to the variable seqNo.
set_fix_value(x) ==
  IF get_saved_transaction_id(context) # NoTx THEN get_saved_transaction_id(context) ELSE x

\* Ask the generators of this set for the event the determined rule needs.
Prepare(c, rule) ==
  CASE rule = "idToken" -> [c EXCEPT !.required_id_token = TRUE,
                                     !.force_event_type = "Started"]
    [] rule = "reservationId" -> [c EXCEPT !.required_reservation_id = TRUE]
    [] rule = "evse" -> [c EXCEPT !.ev_connection_trigger = TRUE]
    [] OTHER -> c

\* Only once, at the first transaction event before the determined one.
Prepares ==
  /\ i < gen_idx /\ Acts[i].msg = TransactionEvent /\ ~prepared
  /\ determine_rule \in {"idToken", "reservationId", "evse"}

PreparedContext == IF Prepares THEN Prepare(context, determine_rule) ELSE context

\* Mutant of NextSeqNo: the counter is not advanced.
SameSeqNo == seqNo

NextSeqNo == seqNo + 1

\* The message joins the set and the context.
Generated(c, m) == context' = [c EXCEPT !.messages = Append(@, m)]

\* No message: fail_cause is set and the scenario goes on. Without its commit
\* the mark is lost.
NotGenerated(c, why) ==
  /\ context' = c
  /\ \/ fail' = fail \cup {why} /\ rows' = Committed /\ UNCHANGED session
     \/ UNCHANGED fail /\ SessionFails(Lost)

\* The handler around every action: whatever raises, before or in a commit,
\* the action is skipped and the set not marked.
ActRaises(c) ==
  /\ context' = c
  /\ \/ UNCHANGED <<session, rows>>
     \/ session = "ok" /\ rows' = Committed /\ UNCHANGED session
     \/ session = "ok" /\ SessionFails(Lost)
  /\ UNCHANGED fail

\* CS_TO_CSMS_REQUEST: generated, committed with the set and handed to the
\* controllers, where a commit may fail again; generation begins with a commit
\* and does nothing in a session that failed.
CsRequest ==
  /\ InAct("CS_TO_CSMS_REQUEST")
  /\ LET rule == IF i = gen_idx THEN determine_rule ELSE AllActive
         c == PreparedContext
         x == set_fix_value(fix[i])
     IN /\ fix' = [fix EXCEPT ![i] = x]
        /\ \/ /\ session = "ok" /\ ~Unprepared(c, rule)
              /\ \E m \in DeterminedMessages(i, c, x, rule) : Generated(c, m)
              /\ \/ rows' = Append(Committed, "sent") /\ session' \in {"ok", "failed"}
                 \/ SessionFails(Append(Lost, "lost"))
              /\ UNCHANGED fail
           \/ session = "ok" /\ Unprepared(c, rule) /\ NotGenerated(c, "unprepared")
           \/ session = "ok" /\ NotGenerated(c, "generate")
           \/ ActRaises(c)
  /\ prepared' = (prepared \/ Prepares)
  /\ seqNo' = NextSeqNo
  /\ i' = i + 1
  /\ UNCHANGED <<scenario, step, combo, pc, set>>

\* CSMS_TO_CS_REQUEST: patched (which may raise), remembered, and handed to the
\* controllers that can ask their CSMS, after a commit; with no such controller
\* it waits for the next commit.
CsmsRequest ==
  /\ InAct("CSMS_TO_CS_REQUEST")
  /\ \/ /\ session = "ok"
        /\ \E m \in TrueMessages(i, context, fix[i]) : Generated(context, m)
        /\ \/ rows' = Append(Committed, "sent") /\ session' \in {"ok", "failed"}
           \/ rows' = Append(Committed, "pending") /\ UNCHANGED session
           \/ SessionFails(Append(Committed, "lost"))
        /\ UNCHANGED fail
     \/ session = "ok" /\ NotGenerated(context, "generate")
     \/ ActRaises(context)
  /\ i' = i + 1
  /\ UNCHANGED <<scenario, step, combo, pc, set, seqNo, prepared, fix>>

\* CS_TO_CSMS_RESPONSE: sent, not remembered and not marked when it fails. One
\* that was not generated is a None in the set's message list, on which the
\* next commit fails.
CsResponse ==
  /\ InAct("CS_TO_CSMS_RESPONSE")
  /\ ActRaises(context)
  /\ i' = i + 1
  /\ UNCHANGED <<scenario, step, combo, pc, set, seqNo, prepared, fix>>

\* set_fix_value raises, before seqNo is advanced.
FixValueRaises ==
  /\ InAct("CS_TO_CSMS_REQUEST")
  /\ ActRaises(context)
  /\ i' = i + 1
  /\ UNCHANGED <<scenario, step, combo, pc, set, seqNo, prepared, fix>>

Finished == pc = "done" /\ UNCHANGED vars

Next ==
  \/ BeginScenario \/ ScenarioRaises \/ EndScenario
  \/ BeginSet \/ SetRaises \/ EndSet
  \/ CsRequest \/ FixValueRaises \/ CsmsRequest \/ CsResponse
  \/ Finished

Spec == Init /\ [][Next]_vars

-----------------------------------------------------------------------------
(* Properties *)

\* The transaction events of the set that are generated with all rules active.
Valid == SelectSeq(TransactionEvents(context), LAMBDA m : m.rule = AllActive)
NotBroken(rule) == SelectSeq(TransactionEvents(context), LAMBDA m : m.rule # rule)

\* The transaction events of one set belong to one transaction, although every
\* generator keeps the transactionId fixed in earlier sets, and carry strictly
\* increasing sequence numbers, whatever was skipped in between, unless the
\* field itself is under test.
OneTransaction ==
  /\ \A m, n \in Range(NotBroken("transactionId")) : m.tx = n.tx
  /\ \A j, k \in DOMAIN NotBroken("seqNo") :
       j < k => NotBroken("seqNo")[j].seqNo < NotBroken("seqNo")[k].seqNo

\* Transaction event actions of the running set that have been passed.
Passed == {k \in 1..Len(Acts) : k < i /\ Acts[k].msg = TransactionEvent
                                  /\ Acts[k].type = "CS_TO_CSMS_REQUEST"}

\* A set continues a transaction of an earlier charging station only if one of
\* its own transaction events could not be generated.
ReuseOnlyAfterFailure ==
  \A m \in Range(NotBroken("transactionId")) :
    m.tx[1] # set => Cardinality(Passed) > Len(TransactionEvents(context))

\* What the rules allow once, reservationId in a transaction and evse after the
\* EV has connected, is in at most one of the events generated with every rule
\* active.  The set that breaks the evse rule is the exception: its preparation
\* forces evse into all of its earlier events.  And a once per transaction rule
\* that is to be broken finds the event it needs as soon as one transaction
\* event was generated: preparing the first is enough even if that one fails.
FieldsOnce ==
  /\ "unprepared" \in fail => TransactionEvents(context) = <<>>
  /\ Cardinality({k \in DOMAIN Valid : Valid[k].reservationId}) <= 1
  /\ pc = "act" /\ determine_rule # "evse" =>
       Cardinality({k \in DOMAIN Valid : Valid[k].evse}) <= 1

\* What a set sends builds on messages that are in the database: when one is
\* handed to the controllers, every message that its context looked back at is
\* stored with the set. A commit that fails loses a message which the context
\* still holds; it is only because the handler of an action does not roll back
\* that the session refuses the rest of the set and nothing more is sent.
BuiltOnStored ==
  \A j, k \in DOMAIN rows :
    j < k /\ rows[k] = "sent" => rows[j] \in {"stored", "sent"}

\* The schema of AuthorizeRequest allows no additional property: only
\* transaction events carry an eventType.
NoForeignEventType ==
  \A m \in Range(context.messages) :
    Is(m, Authorize) /\ m.rule = AllActive => m.event = "none"

=============================================================================
