--------------------------- MODULE MCScenarioRun ---------------------------
(* Scenarios for TLC. *)
EXTENDS ScenarioRun

Request(msg, event, trigger) ==
  [type |-> "CS_TO_CSMS_REQUEST", msg |-> msg, event |-> event, trigger |-> trigger]
FromCsms(msg) ==
  [type |-> "CSMS_TO_CS_REQUEST", msg |-> msg, event |-> "any", trigger |-> "any"]
Response(msg) ==
  [type |-> "CS_TO_CSMS_RESPONSE", msg |-> msg, event |-> "any", trigger |-> "any"]

\* A charging session that the CSMS starts and reserves.
mcSession ==
  << FromCsms("RequestStartTransactionRequest"),
     Response("RequestStartTransactionResponse"),
     Request(TransactionEvent, "Started", "any"),
     Request(Authorize, "any", "any"),
     Request(TransactionEvent, "Other", "Other"),
     Request(TransactionEvent, "any", "any") >>

mcSessionRules ==
  << <<>>, <<>>, <<>>, <<>>, <<"transactionId">>, <<"idToken", "reservationId", "evse">> >>

\* Three events, nothing fixed.
mcEvents ==
  << Request(TransactionEvent, "any", "any"),
     Request(TransactionEvent, "any", "any"),
     Request(TransactionEvent, "any", "any") >>

mcEventRules == << <<"idToken", "other">>, <<"seqNo">>, <<"reservationId", "evse">> >>

mcScenarios ==
  << [acts |-> mcSession, rules |-> mcSessionRules],
     [acts |-> mcEvents, rules |-> mcEventRules] >>

=============================================================================
