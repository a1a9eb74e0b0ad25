------------------------------ MODULE MCScripts ------------------------------
(***************************************************************************)
(* The scripts of OCPPuzz that run by themselves, on small inputs: the     *)
(* three collectors, which prepare the tests, and the validator, which     *)
(* counts their results.  A behaviour runs one of them, so what the        *)
(* collectors have in common is one set of variables.  The rule collector  *)
(* runs over two objects without a new collection, or over one with one;   *)
(* the scenario collector over two pages with fewer retries, or over one.  *)
(***************************************************************************)
EXTENDS Validator

CONSTANTS citrine, enumRule, sizeRule

mcProjects  == {citrine}
mcRuleNames == {enumRule, sizeRule}

VARIABLES
  script,                                \* the script of this behaviour
  pc, retry_dto, ask, session, db,       \* what the scripts have in common
  collection, obj, pages,                \* of the rule collector
  page, info, total,                     \* of the scenario collector
  message, stack, quoted                 \* of the direction collector

shared     == <<pc, retry_dto, db>>
ofRule     == <<collection, obj, pages>>
ofScenario == <<page, info, total>>
ofMessage  == <<message, stack, quoted>>
ofResult   == <<analysed, cnt, unique, exited, causeless>>
scriptVars == <<script, shared, ask, session, ofRule, ofScenario, ofMessage, ofResult>>

Resumed == INSTANCE RuleCollector WITH
  NObject <- 2, First <- 1, repeat_cnt <- 0, RETRY_MAX_CNT <- 3
Repeated == INSTANCE RuleCollector WITH
  NObject <- 1, First <- 1, repeat_cnt <- 1, RETRY_MAX_CNT <- 3
Scenarios == INSTANCE ScenarioCollector WITH NPage <- 2, RETRY_MAX_CNT <- 2
OneScenario == INSTANCE ScenarioCollector WITH NPage <- 1, RETRY_MAX_CNT <- 3
Directions == INSTANCE DirectionCollector WITH
  NMessage <- 3, Described <- {1, 2}, RETRY_MAX_CNT <- 3

\* The inputs are inputs that the scripts can have.
ASSUME InputAssumption ==
  /\ Resumed!CollectorAssumption /\ Repeated!CollectorAssumption
  /\ Scenarios!ScenarioCollectorAssumption /\ OneScenario!ScenarioCollectorAssumption
  /\ Directions!DirectionAssumption

NotRules      == collection = 0 /\ obj = 0 /\ pages = {}
NotScenarios  == page = 0 /\ info = {} /\ total = {}
NotDirections == message = 0 /\ stack = <<>> /\ quoted = 0
NotCollecting == pc = "none" /\ retry_dto = {} /\ ask = {} /\ session = {} /\ db = {}

ScriptInit ==
  /\ Init
  /\ \/ script = "resumed" /\ Resumed!Init /\ NotScenarios /\ NotDirections
     \/ script = "repeated" /\ Repeated!Init /\ NotScenarios /\ NotDirections
     \/ script = "scenarios" /\ Scenarios!Init /\ NotRules /\ NotDirections /\ session = {}
     \/ script = "scenario" /\ OneScenario!Init /\ NotRules /\ NotDirections /\ session = {}
     \/ script = "directions" /\ Directions!Init /\ NotRules /\ NotScenarios /\ ask = {}
     \/ script = "validator" /\ NotCollecting /\ NotRules /\ NotScenarios /\ NotDirections

ResumedNext ==
  /\ script = "resumed" /\ Resumed!Next
  /\ UNCHANGED <<script, ofScenario, ofMessage, ofResult>>
RepeatedNext ==
  /\ script = "repeated" /\ Repeated!Next
  /\ UNCHANGED <<script, ofScenario, ofMessage, ofResult>>
ScenariosNext ==
  /\ script = "scenarios" /\ Scenarios!Next
  /\ UNCHANGED <<script, session, ofRule, ofMessage, ofResult>>
OneScenarioNext ==
  /\ script = "scenario" /\ OneScenario!Next
  /\ UNCHANGED <<script, session, ofRule, ofMessage, ofResult>>
DirectionsNext ==
  /\ script = "directions" /\ Directions!Next
  /\ UNCHANGED <<script, ask, ofRule, ofScenario, ofResult>>
ValidatorNext ==
  /\ script = "validator" /\ Next
  /\ UNCHANGED <<script, shared, ask, session, ofRule, ofScenario, ofMessage>>

ScriptNext == \/ ResumedNext \/ RepeatedNext \/ ScenariosNext \/ OneScenarioNext
              \/ DirectionsNext \/ ValidatorNext

\* A script runs on; nothing is promised of the language model's answers.
ScriptSpec == ScriptInit /\ [][ScriptNext]_scriptVars /\ WF_scriptVars(ScriptNext)

-----------------------------------------------------------------------------
\* The rule collector: an object is settled once, by the end mark or by a
\* fail row; at most one fail row is lost whenever the script stops; rules
\* are stored with their response; a request shows every response so far and
\* every page that was asked for, and there are RETRY_MAX_CNT at most.
RulesCollected ==
  /\ script = "resumed" => /\ Resumed!TypeOK /\ Resumed!Settled
                           /\ Resumed!AtMostOneFailureLost /\ Resumed!RulesAreLogged
                           /\ Resumed!RequestIsComplete
  /\ script = "repeated" => /\ Repeated!Settled /\ Repeated!AtMostOneFailureLost
                            /\ Repeated!RulesAreLogged /\ Repeated!RequestIsComplete

\* The scenario collector: a page is cleared or failed, in the database; its
\* scenarios are those of the last response alone; pages that were asked for
\* are shown in the next request.
ScenariosCollected ==
  /\ script = "scenarios" => /\ Scenarios!TypeOK /\ Scenarios!SettledInDb
                             /\ Scenarios!DetailsOfLastCall /\ Scenarios!PagesServed
  /\ script = "scenario" => /\ OneScenario!TypeOK /\ OneScenario!SettledInDb
                            /\ OneScenario!DetailsOfLastCall /\ OneScenario!PagesServed

\* The direction collector: a message has one outcome however deep the calls
\* nest, committed no later than its first logged response, with the cause of
\* the last response; a retry quotes the response before it.
DirectionsCollected ==
  script = "directions" => /\ Directions!TypeOK
                           /\ Directions!OneOutcome /\ Directions!OutcomeBeforeLog
                           /\ Directions!CauseOfLastAnswer /\ Directions!RetryQuotesPrevious

\* Whatever the model answers and whatever the rows hold, a script comes to its
\* end.
ScriptEnds ==
  <>(pc \in {"done", "crashed"} \/ (script = "validator" /\ (exited \/ analysed = NMessage)))
=============================================================================
