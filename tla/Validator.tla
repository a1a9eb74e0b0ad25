------------------------------ MODULE Validator ------------------------------
(***************************************************************************)
(* validator.py: the tables of the paper are counted over the execution    *)
(* rows a test left behind.  Validator.analysis visits the messages one by *)
(* one; each has at most one execution row per project.  A row has a       *)
(* response and an error_name in any combination ExecutionLog allows.  A   *)
(* switched off rule whose constraint has no category ends the program     *)
(* before anything is reported.                                            *)
(***************************************************************************)
EXTENDS Integers, FiniteSets

CONSTANTS
  Projects,  \* project names in the rows
  RuleNames, \* field and constraint of a switched off rule (set_key)
  NMessage   \* messages of the tests under analysis

ASSUME ValidatorAssumption ==
  NMessage \in Nat /\ IsFiniteSet(Projects) /\ IsFiniteSet(RuleNames)

\* CONSTRAINT_CATEGORY_MAP: some constraints have no category.
Categories == {"DataType", "Presence", "Content", "Size"}
NoRule == "none"

\* A response is absent, a CALLRESULT, or a CALLERROR with a code of interest.
Responses == {"none", "result", "error", "InternalError", "NotSupported"}
Errors == {"none", "Timeout", "other"}

Rows == [response : Responses, error : Errors]
NoRow == [response |-> "none", error |-> "absent"]

\* The switched off rule of a message: its category, and whether its causes
\* name the description or the structure of the specification, or both.  The
\* list of causes may be empty.
SwitchedOff ==
  [category : Categories, key : RuleNames, description : BOOLEAN, structural : BOOLEAN]
AllActive == [category |-> NoRule, key |-> NoRule, description |-> FALSE, structural |-> FALSE]

VARIABLES
  analysed,  \* messages visited so far
  cnt,       \* project_map: the counters of every project
  unique,    \* project_map: the set_keys behind the keyed counters
  exited,    \* exit() was called
  causeless  \* history: a rule without a cause was switched off

vars == <<analysed, cnt, unique, exited, causeless>>

\* The counters of project_map; total_cnt is fixed from the start.
Total == [DataType |-> "data_type_total_cnt", Presence |-> "presence_total_cnt",
          Content |-> "content_total_cnt", Size |-> "size_total_cnt"]
Wrong == [DataType |-> "data_type_wrong_validate_cnt",
          Presence |-> "presence_wrong_validate_cnt",
          Content |-> "content_wrong_validate_cnt", Size |-> "size_wrong_validate_cnt"]
Counters ==
  {"time_out_cnt", "valid_seed_cnt", "timeout_trigger_cnt",
   "valid_timeout_trigger_cnt", "invalid_timeout_trigger_cnt", "error_trigger_cnt",
   "true_validate_cnt", "true_mismatch_cnt", "wrong_validate_cnt",
   "wrong_validate_description_rule_base_cnt", "wrong_validate_structural_rule_base_cnt",
   "timeout_trigger_description_rule_base_cnt", "timeout_trigger_structural_rule_base_cnt",
   "error_trigger_description_rule_base_cnt", "error_trigger_structural_rule_base_cnt",
   "data_type_total_cnt", "presence_total_cnt", "content_total_cnt", "size_total_cnt",
   "data_type_wrong_validate_cnt", "presence_wrong_validate_cnt",
   "content_wrong_validate_cnt", "size_wrong_validate_cnt"}
\* The counters with a set of set_keys next to them, which grow together.
Keyed ==
  {"wrong_validate_cnt", "wrong_validate_description_rule_base_cnt",
   "wrong_validate_structural_rule_base_cnt", "true_mismatch_cnt",
   "timeout_trigger_cnt", "timeout_trigger_description_rule_base_cnt",
   "timeout_trigger_structural_rule_base_cnt", "error_trigger_cnt",
   "error_trigger_description_rule_base_cnt", "error_trigger_structural_rule_base_cnt"}
total_cnt == NMessage

Init ==
  /\ analysed = 0
  /\ cnt = [p \in Projects |-> [n \in Counters |-> 0]]
  /\ unique = [p \in Projects |-> [n \in Keyed |-> {}]]
  /\ exited = FALSE /\ causeless = FALSE

-----------------------------------------------------------------------------
(* ExpectResponseFormat *)

\* A rule is broken: a CALLERROR is expected; otherwise a CALLRESULT.
expect_response(m) == IF m.category = NoRule THEN "result" ELSE "error"

message_type(response) == IF response = "result" THEN "result" ELSE "error"

is_error_response(row) == row.response = "InternalError"

is_correct_response(m, row) ==
  /\ row.response # "none"
  /\ row.response = "NotSupported" \/ expect_response(m) = message_type(row.response)

-----------------------------------------------------------------------------
(* Validator.analysis for one execution row *)

When(b, names) == IF b THEN names ELSE {}

\* Rows without a response.
CountTimeOut(row) == When(row.response = "none", {"time_out_cnt"})

\* Rows with an error name, or an InternalError response.
Triggered(row) == row.error # "none" \/ is_error_response(row)
TimedOut(row) == row.error = "Timeout"

\* The counters of what the causes of the switched off rule name.
ByCause(m, description, structural) ==
  When(m.description, {description}) \cup When(m.structural, {structural})

\* Mutant of CountTrigger: a timeout of a valid message counts as both.
CountTriggerBoth(m, row) ==
  When(m.category = NoRule, {"valid_seed_cnt"}) \cup
  When(Triggered(row) /\ TimedOut(row),
    {"timeout_trigger_cnt", "invalid_timeout_trigger_cnt"} \cup
    When(m.category = NoRule, {"valid_timeout_trigger_cnt"})) \cup
  When(Triggered(row) /\ ~TimedOut(row), {"error_trigger_cnt"})

CountTrigger(m, row) ==
  When(m.category = NoRule, {"valid_seed_cnt"}) \cup
  When(Triggered(row) /\ TimedOut(row),
    {"timeout_trigger_cnt"} \cup
    When(m.category = NoRule, {"valid_timeout_trigger_cnt"}) \cup
    When(m.category # NoRule, {"invalid_timeout_trigger_cnt"}) \cup
    ByCause(m, "timeout_trigger_description_rule_base_cnt",
               "timeout_trigger_structural_rule_base_cnt")) \cup
  When(Triggered(row) /\ ~TimedOut(row),
    {"error_trigger_cnt"} \cup
    ByCause(m, "error_trigger_description_rule_base_cnt",
               "error_trigger_structural_rule_base_cnt"))

CountTotal(m, row) == When(m.category # NoRule, {Total[m.category]})

CountMatch(m, row) ==
  When(/\ is_correct_response(m, row)
       /\ ~m.description /\ ~m.structural, {"true_validate_cnt"})

\* Mutant of CountMismatch: structure counts only next to a description.
CountMismatchBoth(m, row) ==
  When(~is_correct_response(m, row),
    {"wrong_validate_cnt"} \cup
    When(m.description, {"wrong_validate_description_rule_base_cnt"}) \cup
    When(m.description /\ m.structural, {"wrong_validate_structural_rule_base_cnt"}) \cup
    When(~m.description /\ ~m.structural, {"true_mismatch_cnt"}) \cup
    When(m.category # NoRule, {Wrong[m.category]}))

CountMismatch(m, row) ==
  When(~is_correct_response(m, row),
    {"wrong_validate_cnt"} \cup
    ByCause(m, "wrong_validate_description_rule_base_cnt",
               "wrong_validate_structural_rule_base_cnt") \cup
    When(~m.description /\ ~m.structural, {"true_mismatch_cnt"}) \cup
    When(m.category # NoRule, {Wrong[m.category]}))

\* The loops of analysis over the rows of a message; each counter grows by one
\* at most.
Counted(m, row) ==
  CountTimeOut(row) \cup CountTrigger(m, row) \cup CountTotal(m, row)
    \cup CountMatch(m, row) \cup CountMismatch(m, row)

Add(c, names) == [n \in Counters |-> IF n \in names THEN c[n] + 1 ELSE c[n]]
AddKey(u, names, key) == [n \in Keyed |-> IF n \in names THEN u[n] \cup {key} ELSE u[n]]

NoCause(m) == m.category # NoRule /\ ~m.description /\ ~m.structural

\* One message with its rows.
Analyse(m, row) ==
  /\ ~exited /\ analysed < NMessage
  /\ analysed' = analysed + 1
  /\ cnt' = [p \in Projects |-> IF row[p] = NoRow THEN cnt[p]
                                ELSE Add(cnt[p], Counted(m, row[p]))]
  /\ unique' = [p \in Projects |-> IF row[p] = NoRow THEN unique[p]
                                   ELSE AddKey(unique[p], Counted(m, row[p]), m.key)]
  /\ causeless' = (causeless \/ NoCause(m))
  /\ UNCHANGED exited

\* A message whose switched off rule has no category: its rows without a
\* response are counted, then the program exits.
Exit(row) ==
  /\ ~exited /\ analysed < NMessage
  /\ cnt' = [p \in Projects |-> IF row[p] = NoRow THEN cnt[p]
                                ELSE Add(cnt[p], CountTimeOut(row[p]))]
  /\ exited' = TRUE
  /\ UNCHANGED <<analysed, unique, causeless>>

Finished == (exited \/ analysed = NMessage) /\ UNCHANGED vars

Next ==
  \/ \E m \in SwitchedOff \cup {AllActive}, row \in [Projects -> Rows \cup {NoRow}] :
       Analyse(m, row)
  \/ \E row \in [Projects -> Rows \cup {NoRow}] : Exit(row)
  \/ Finished

Spec == Init /\ [][Next]_vars

-----------------------------------------------------------------------------
(* AnalysisResult *)

\* get_percent_rate, in tenths of a percent.
get_percent_rate(a, b) == IF b > 0 THEN (1000 * a) \div b ELSE 0

InvalidMismatches(c) ==
  c["data_type_wrong_validate_cnt"] + c["presence_wrong_validate_cnt"]
    + c["content_wrong_validate_cnt"] + c["size_wrong_validate_cnt"]

\* Type invariant.
TypeOK ==
  /\ analysed \in 0..NMessage
  /\ cnt \in [Projects -> [Counters -> Nat]]
  /\ unique \in [Projects -> [Keyed -> SUBSET (RuleNames \cup {NoRule})]]
  /\ exited \in BOOLEAN /\ causeless \in BOOLEAN

\* Every number of a table row is a part of the number it is printed against:
\* timeouts are of valid or invalid messages and, as long as every switched
\* off rule has a cause, valid messages match or do not and the mismatches are
\* those of the valid messages and of the four categories.  An invalid message
\* whose rule has no cause is counted among the valid ones too.
PartsAddUp ==
  \A p \in Projects :
    LET c == cnt[p]
    IN /\ c["timeout_trigger_cnt"] = c["valid_timeout_trigger_cnt"]
                                       + c["invalid_timeout_trigger_cnt"]
       /\ c["valid_seed_cnt"] <= c["true_validate_cnt"] + c["true_mismatch_cnt"]
       /\ c["wrong_validate_cnt"] <= c["true_mismatch_cnt"] + InvalidMismatches(c)
       /\ ~causeless =>
            /\ c["valid_seed_cnt"] = c["true_validate_cnt"] + c["true_mismatch_cnt"]
            /\ c["wrong_validate_cnt"] = c["true_mismatch_cnt"] + InvalidMismatches(c)

\* No printed rate exceeds 100 percent, although the rate over all messages is
\* taken against the messages and not against the rows of the project.
RatesArePercentages ==
  \A p \in Projects :
    LET c == cnt[p]
    IN /\ \A k \in Categories : get_percent_rate(c[Wrong[k]], c[Total[k]]) <= 1000
       /\ get_percent_rate(c["true_mismatch_cnt"],
                           c["true_validate_cnt"] + c["true_mismatch_cnt"]) <= 1000
       /\ get_percent_rate(c["wrong_validate_cnt"], total_cnt) <= 1000

\* A row without a response is never a match: silence of a CSMS, and a
\* message that was not delivered, count as mismatches in every result that is
\* returned.
SilenceIsMismatch ==
  ~exited => \A p \in Projects : cnt[p]["time_out_cnt"] <= cnt[p]["wrong_validate_cnt"]

\* A mismatch of an invalid message is attributed to the description or to
\* the structure of the specification, at least once, or its rule has no cause
\* and it is counted with the valid messages; the set_keys of the mismatches
\* are those of the three.
MismatchesAttributed ==
  \A p \in Projects :
    LET c == cnt[p]
        u == unique[p]
        attributed == c["wrong_validate_description_rule_base_cnt"]
                        + c["wrong_validate_structural_rule_base_cnt"]
    IN /\ InvalidMismatches(c) <= attributed + c["true_mismatch_cnt"]
       /\ ~causeless => InvalidMismatches(c) <= attributed
       /\ u["wrong_validate_cnt"] = u["wrong_validate_description_rule_base_cnt"]
                                     \cup u["wrong_validate_structural_rule_base_cnt"]
                                     \cup u["true_mismatch_cnt"]

=============================================================================
