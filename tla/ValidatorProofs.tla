--------------------------- MODULE ValidatorProofs ---------------------------
(* Proofs about Validator for any projects, rules and number of messages. *)
EXTENDS Validator, TLAPS

Messages == SwitchedOff \cup {AllActive}

Attributed(c) == c["wrong_validate_description_rule_base_cnt"]
                   + c["wrong_validate_structural_rule_base_cnt"]

\* What the properties say of the counters of one project, whatever the rules.
GoodCounters(c) ==
  /\ c["valid_seed_cnt"] <= c["true_validate_cnt"] + c["true_mismatch_cnt"]
  /\ c["wrong_validate_cnt"] <= c["true_mismatch_cnt"] + InvalidMismatches(c)
  /\ c["timeout_trigger_cnt"] = c["valid_timeout_trigger_cnt"]
                                  + c["invalid_timeout_trigger_cnt"]
  /\ InvalidMismatches(c) <= Attributed(c) + c["true_mismatch_cnt"]
  /\ \A k \in Categories : c[Wrong[k]] <= c[Total[k]]

\* What they say besides when every rule has a cause.
ExactCounters(c) ==
  /\ c["valid_seed_cnt"] = c["true_validate_cnt"] + c["true_mismatch_cnt"]
  /\ c["wrong_validate_cnt"] = c["true_mismatch_cnt"] + InvalidMismatches(c)
  /\ InvalidMismatches(c) <= Attributed(c)

\* The keys of the mismatches are those of the three kinds of mismatch.
KeysAttributed(u) ==
  u["wrong_validate_cnt"] = u["wrong_validate_description_rule_base_cnt"]
                              \cup u["wrong_validate_structural_rule_base_cnt"]
                              \cup u["true_mismatch_cnt"]

\* The inductive invariant: a project never has more mismatches than messages
\* were analysed.
Inv ==
  /\ TypeOK
  /\ \A p \in Projects :
       /\ GoodCounters(cnt[p])
       /\ ~causeless => ExactCounters(cnt[p])
       /\ cnt[p]["wrong_validate_cnt"] <= analysed
       /\ ~exited => cnt[p]["time_out_cnt"] <= cnt[p]["wrong_validate_cnt"]
       /\ KeysAttributed(unique[p])

\* Which counters a row of a valid message, and of an invalid one, adds to.
LEMMA CountedValid ==
  ASSUME NEW row \in Rows
  PROVE  LET S == Counted(AllActive, row)
             bad == ~is_correct_response(AllActive, row)
         IN /\ "valid_seed_cnt" \in S
            /\ "true_validate_cnt" \in S <=> ~bad
            /\ "true_mismatch_cnt" \in S <=> bad
            /\ "wrong_validate_cnt" \in S <=> bad
            /\ "time_out_cnt" \in S => bad
            /\ "wrong_validate_description_rule_base_cnt" \notin S
            /\ "wrong_validate_structural_rule_base_cnt" \notin S
            /\ "timeout_trigger_cnt" \in S <=> "valid_timeout_trigger_cnt" \in S
            /\ "invalid_timeout_trigger_cnt" \notin S
            /\ \A k \in Categories : Wrong[k] \notin S /\ Total[k] \notin S
<1> DEFINE S == Counted(AllActive, row)
           bad == ~is_correct_response(AllActive, row)
<1>1. /\ "valid_seed_cnt" \in S
      /\ "true_validate_cnt" \in S <=> ~bad
      /\ "true_mismatch_cnt" \in S <=> bad
  BY DEF Counted, CountTimeOut, CountTrigger, CountTotal, CountMatch, CountMismatch,
         ByCause, When, AllActive, is_correct_response, expect_response,
         message_type, NoRule, Rows, Categories, Wrong, Total
<1>2. /\ "wrong_validate_cnt" \in S <=> bad
      /\ "time_out_cnt" \in S => bad
      /\ "wrong_validate_description_rule_base_cnt" \notin S
      /\ "wrong_validate_structural_rule_base_cnt" \notin S
  BY DEF Counted, CountTimeOut, CountTrigger, CountTotal, CountMatch, CountMismatch,
         ByCause, When, AllActive, is_correct_response, expect_response,
         message_type, NoRule, Rows, Categories, Wrong, Total
<1>3. /\ "timeout_trigger_cnt" \in S <=> "valid_timeout_trigger_cnt" \in S
      /\ "invalid_timeout_trigger_cnt" \notin S
  BY DEF Counted, CountTimeOut, CountTrigger, CountTotal, CountMatch, CountMismatch,
         ByCause, When, AllActive, is_correct_response, expect_response,
         message_type, NoRule, Rows, Categories, Wrong, Total
<1>4. \A k \in Categories : Wrong[k] \notin S /\ Total[k] \notin S
  BY DEF Counted, CountTimeOut, CountTrigger, CountTotal, CountMatch, CountMismatch,
         ByCause, When, AllActive, is_correct_response, expect_response,
         message_type, NoRule, Rows, Categories, Wrong, Total
<1>5. QED
  BY <1>1, <1>2, <1>3, <1>4

\* What one row of a message with a broken rule adds to the counters.
LEMMA CountedInvalid ==
  ASSUME NEW m \in SwitchedOff, NEW row \in Rows
  PROVE  LET S == Counted(m, row)
             bad == ~is_correct_response(m, row)
         IN /\ "valid_seed_cnt" \notin S
            /\ ~NoCause(m) => "true_validate_cnt" \notin S /\ "true_mismatch_cnt" \notin S
            /\ "wrong_validate_cnt" \in S <=> bad
            /\ "time_out_cnt" \in S => bad
            /\ bad <=> \/ "wrong_validate_description_rule_base_cnt" \in S
                       \/ "wrong_validate_structural_rule_base_cnt" \in S
                       \/ "true_mismatch_cnt" \in S
            /\ "timeout_trigger_cnt" \in S <=> "invalid_timeout_trigger_cnt" \in S
            /\ "valid_timeout_trigger_cnt" \notin S
            /\ \A k \in Categories : Wrong[k] \in S <=> bad /\ m.category = k
            /\ \A k \in Categories : Total[k] \in S <=> m.category = k
<1> DEFINE S == Counted(m, row)
           bad == ~is_correct_response(m, row)
<1>1. /\ "valid_seed_cnt" \notin S
      /\ ~NoCause(m) => "true_validate_cnt" \notin S /\ "true_mismatch_cnt" \notin S
  BY DEF Counted, CountTimeOut, CountTrigger, CountTotal, CountMatch, CountMismatch,
         NoCause, ByCause, When, SwitchedOff, is_correct_response, expect_response,
         message_type, NoRule, Rows, Categories, Wrong, Total
<1>2. /\ "wrong_validate_cnt" \in S <=> bad
      /\ "time_out_cnt" \in S => bad
      /\ bad <=> \/ "wrong_validate_description_rule_base_cnt" \in S
                 \/ "wrong_validate_structural_rule_base_cnt" \in S
                 \/ "true_mismatch_cnt" \in S
  BY DEF Counted, CountTimeOut, CountTrigger, CountTotal, CountMatch, CountMismatch,
         ByCause, When, SwitchedOff, is_correct_response, expect_response,
         message_type, NoRule, Rows, Categories, Wrong, Total
<1>3. /\ "timeout_trigger_cnt" \in S <=> "invalid_timeout_trigger_cnt" \in S
      /\ "valid_timeout_trigger_cnt" \notin S
  BY DEF Counted, CountTimeOut, CountTrigger, CountTotal, CountMatch, CountMismatch,
         ByCause, When, SwitchedOff, is_correct_response, expect_response,
         message_type, NoRule, Rows, Categories, Wrong, Total
<1>4. \A k \in Categories : /\ Wrong[k] \in S <=> bad /\ m.category = k
                            /\ Total[k] \in S <=> m.category = k
  BY DEF Counted, CountTimeOut, CountTrigger, CountTotal, CountMatch, CountMismatch,
         ByCause, When, SwitchedOff, is_correct_response, expect_response,
         message_type, NoRule, Rows, Categories, Wrong, Total
<1>5. QED
  BY <1>1, <1>2, <1>3, <1>4

\* The counters of a category are counters of the project.
LEMMA CategoryCounters ==
  \A k \in Categories : Wrong[k] \in Counters /\ Total[k] \in Counters
BY DEF Categories, Wrong, Total, Counters

\* Adding the counters of one row keeps the counters good, exact unless its
\* rule has no cause, and adds at most one mismatch, and one whenever there is
\* no response.
LEMMA AddGood ==
  ASSUME NEW c \in [Counters -> Nat], GoodCounters(c),
         NEW m \in Messages, NEW row \in Rows
  PROVE  LET d == Add(c, Counted(m, row))
         IN /\ d \in [Counters -> Nat]
            /\ GoodCounters(d)
            /\ ExactCounters(c) /\ ~NoCause(m) => ExactCounters(d)
            /\ d["wrong_validate_cnt"] <= c["wrong_validate_cnt"] + 1
            /\ c["time_out_cnt"] <= c["wrong_validate_cnt"] =>
                 d["time_out_cnt"] <= d["wrong_validate_cnt"]
<1> DEFINE S == Counted(m, row)
           d == Add(c, S)
<1>1. d \in [Counters -> Nat]
  BY DEF Add
<1>2. \A n \in Counters : d[n] = IF n \in S THEN c[n] + 1 ELSE c[n]
  BY DEF Add
<1>3. CASE m = AllActive
  <2>1. GoodCounters(d) /\ d["wrong_validate_cnt"] <= c["wrong_validate_cnt"] + 1
    BY <1>1, <1>2, <1>3, CountedValid, CategoryCounters
       DEF GoodCounters, InvalidMismatches, Attributed, Counters, Categories, Wrong, Total
  <2>2. ExactCounters(c) => ExactCounters(d)
    BY <1>1, <1>2, <1>3, CountedValid, CategoryCounters
       DEF ExactCounters, InvalidMismatches, Attributed, Counters, Categories, Wrong, Total
  <2>3. c["time_out_cnt"] <= c["wrong_validate_cnt"] => d["time_out_cnt"] <= d["wrong_validate_cnt"]
    BY <1>1, <1>2, <1>3, CountedValid DEF Counters
  <2>4. QED
    BY <1>1, <2>1, <2>2, <2>3
<1>4. CASE m \in SwitchedOff
  <2>1. m.category \in Categories
    BY <1>4 DEF SwitchedOff
  <2>2. \A k \in Categories : d[Wrong[k]] <= d[Total[k]]
    BY <1>1, <1>2, <1>4, CountedInvalid, CategoryCounters DEF GoodCounters
  <2>3. InvalidMismatches(d) = InvalidMismatches(c)
                                 + (IF is_correct_response(m, row) THEN 0 ELSE 1)
    BY <1>1, <1>2, <1>4, <2>1, CountedInvalid, CategoryCounters
       DEF InvalidMismatches, Counters, Categories, Wrong
  <2>4. InvalidMismatches(c) \in Nat /\ InvalidMismatches(d) \in Nat
    BY <1>1 DEF InvalidMismatches, Counters
  <2>5. GoodCounters(d)
    BY <1>1, <1>2, <1>4, <2>2, <2>3, <2>4, CountedInvalid DEF GoodCounters, Attributed, Counters
  <2>6. ExactCounters(c) /\ ~NoCause(m) => ExactCounters(d)
    BY <1>1, <1>2, <1>4, <2>3, <2>4, CountedInvalid DEF ExactCounters, Attributed, Counters
  <2>7. /\ d["wrong_validate_cnt"] <= c["wrong_validate_cnt"] + 1
        /\ c["time_out_cnt"] <= c["wrong_validate_cnt"] =>
             d["time_out_cnt"] <= d["wrong_validate_cnt"]
    BY <1>1, <1>2, <1>4, CountedInvalid DEF Counters
  <2>8. QED
    BY <1>1, <2>5, <2>6, <2>7
<1>5. QED
  BY <1>3, <1>4 DEF Messages

\* Adding the key of a message to the key sets keeps every mismatch attributed.
LEMMA AddKeyGood ==
  ASSUME NEW u \in [Keyed -> SUBSET (RuleNames \cup {NoRule})], KeysAttributed(u),
         NEW m \in Messages, NEW row \in Rows
  PROVE  LET v == AddKey(u, Counted(m, row), m.key)
         IN /\ v \in [Keyed -> SUBSET (RuleNames \cup {NoRule})]
            /\ KeysAttributed(v)
<1> DEFINE S == Counted(m, row)
           v == AddKey(u, S, m.key)
<1>1. m.key \in RuleNames \cup {NoRule}
  BY DEF Messages, SwitchedOff, AllActive
<1>2. v \in [Keyed -> SUBSET (RuleNames \cup {NoRule})]
  BY <1>1 DEF AddKey
<1>3. \A n \in Keyed : v[n] = IF n \in S THEN u[n] \cup {m.key} ELSE u[n]
  BY DEF AddKey
<1>4. /\ "wrong_validate_cnt" \in S <=>
           \/ "wrong_validate_description_rule_base_cnt" \in S
           \/ "wrong_validate_structural_rule_base_cnt" \in S
           \/ "true_mismatch_cnt" \in S
      /\ {"wrong_validate_cnt", "wrong_validate_description_rule_base_cnt",
          "wrong_validate_structural_rule_base_cnt", "true_mismatch_cnt"} \subseteq Keyed
  <2>1. CASE m = AllActive
    BY <2>1, CountedValid DEF Keyed
  <2>2. CASE m \in SwitchedOff
    BY <2>2, CountedInvalid DEF Keyed
  <2>3. QED
    BY <2>1, <2>2 DEF Messages
<1>5. KeysAttributed(v)
  BY Zenon, <1>3, <1>4 DEF KeysAttributed
<1>6. QED
  BY <1>2, <1>5

\* A new project_map has all counters zero.
LEMMA InvInit == Init => Inv
<1> SUFFICES ASSUME Init PROVE Inv
  OBVIOUS
<1>1. TypeOK
  <2>1. analysed \in 0..NMessage /\ cnt \in [Projects -> [Counters -> Nat]]
    BY ValidatorAssumption DEF Init
  <2>2. unique \in [Projects -> [Keyed -> SUBSET (RuleNames \cup {NoRule})]]
    BY DEF Init
  <2>3. exited \in BOOLEAN /\ causeless \in BOOLEAN
    BY Zenon DEF Init
  <2>4. QED
    BY <2>1, <2>2, <2>3 DEF TypeOK
<1>2. ASSUME NEW p \in Projects
      PROVE  /\ GoodCounters(cnt[p]) /\ ExactCounters(cnt[p])
             /\ cnt[p]["wrong_validate_cnt"] <= analysed
             /\ cnt[p]["time_out_cnt"] <= cnt[p]["wrong_validate_cnt"]
  BY CategoryCounters
     DEF Init, GoodCounters, ExactCounters, Attributed, InvalidMismatches, Counters
<1>3. ASSUME NEW p \in Projects PROVE KeysAttributed(unique[p])
  BY DEF Init, KeysAttributed, Keyed
<1>4. QED
  BY <1>1, <1>2, <1>3 DEF Inv

\* Analysing one message, or giving up at a rule without category, keeps Inv.
LEMMA InvStep == Inv /\ [Next]_vars => Inv'
<1> SUFFICES ASSUME Inv, [Next]_vars PROVE Inv'
  OBVIOUS
<1> USE DEF Inv, TypeOK
<1>1. ASSUME NEW m \in Messages, NEW row \in [Projects -> Rows \cup {NoRow}],
             Analyse(m, row)
      PROVE  Inv'
  <2>1. analysed' \in 0..NMessage /\ analysed' = analysed + 1 /\ analysed \in Nat
    BY <1>1, ValidatorAssumption DEF Analyse
  <2>2. ASSUME NEW p \in Projects
        PROVE  /\ cnt'[p] \in [Counters -> Nat]
               /\ unique'[p] \in [Keyed -> SUBSET (RuleNames \cup {NoRule})]
               /\ GoodCounters(cnt'[p]) /\ KeysAttributed(unique'[p])
               /\ ~causeless' => ExactCounters(cnt'[p])
               /\ cnt'[p]["wrong_validate_cnt"] <= analysed'
               /\ cnt'[p]["time_out_cnt"] <= cnt'[p]["wrong_validate_cnt"]
    <3>1. /\ cnt[p] \in [Counters -> Nat] /\ GoodCounters(cnt[p])
          /\ unique[p] \in [Keyed -> SUBSET (RuleNames \cup {NoRule})]
          /\ KeysAttributed(unique[p])
          /\ cnt[p]["wrong_validate_cnt"] \in Nat
          /\ cnt[p]["wrong_validate_cnt"] <= analysed
          /\ cnt[p]["time_out_cnt"] <= cnt[p]["wrong_validate_cnt"]
          /\ ~causeless => ExactCounters(cnt[p])
      BY <1>1 DEF Analyse, Counters
    <3>c. ~causeless' => ~causeless /\ ~NoCause(m)
      BY Zenon, <1>1 DEF Analyse
    <3>2. CASE row[p] = NoRow
      <4>1. cnt'[p] = cnt[p] /\ unique'[p] = unique[p]
        BY <1>1, <3>2 DEF Analyse
      <4>2. QED
        BY <2>1, <3>1, <3>c, <4>1
    <3>3. CASE row[p] # NoRow
      <4>1. row[p] \in Rows
        BY <3>3
      <4>2. /\ cnt'[p] = Add(cnt[p], Counted(m, row[p]))
            /\ unique'[p] = AddKey(unique[p], Counted(m, row[p]), m.key)
        BY <1>1, <3>3 DEF Analyse
      <4>3. /\ cnt'[p] \in [Counters -> Nat] /\ GoodCounters(cnt'[p])
            /\ cnt'[p]["wrong_validate_cnt"] <= cnt[p]["wrong_validate_cnt"] + 1
            /\ cnt'[p]["time_out_cnt"] <= cnt'[p]["wrong_validate_cnt"]
            /\ ~causeless' => ExactCounters(cnt'[p])
        BY <3>1, <3>c, <4>1, <4>2, AddGood
      <4>4. /\ unique'[p] \in [Keyed -> SUBSET (RuleNames \cup {NoRule})]
            /\ KeysAttributed(unique'[p])
        BY <3>1, <4>1, <4>2, AddKeyGood
      <4>5. cnt'[p]["wrong_validate_cnt"] \in Nat
        BY <4>3 DEF Counters
      <4>6. QED
        BY <2>1, <3>1, <4>3, <4>4, <4>5
    <3>4. QED
      BY <3>2, <3>3
  <2>3. /\ cnt' \in [Projects -> [Counters -> Nat]]
        /\ unique' \in [Projects -> [Keyed -> SUBSET (RuleNames \cup {NoRule})]]
    BY <1>1, <2>2 DEF Analyse
  <2>4. exited' \in BOOLEAN /\ causeless' \in BOOLEAN
    BY Zenon, <1>1 DEF Analyse
  <2>5. QED
    BY <2>1, <2>2, <2>3, <2>4
<1>2. ASSUME NEW row \in [Projects -> Rows \cup {NoRow}], Exit(row)
      PROVE  Inv'
  <2>1. ASSUME NEW p \in Projects
        PROVE  /\ cnt'[p] \in [Counters -> Nat]
               /\ GoodCounters(cnt'[p])
               /\ ~causeless => ExactCounters(cnt'[p])
               /\ cnt'[p]["wrong_validate_cnt"] <= analysed
    <3>1. /\ cnt[p] \in [Counters -> Nat] /\ GoodCounters(cnt[p])
          /\ ~causeless => ExactCounters(cnt[p])
          /\ cnt[p]["wrong_validate_cnt"] <= analysed
      OBVIOUS
    <3>2. CASE row[p] = NoRow
      <4>1. cnt'[p] = cnt[p]
        BY <1>2, <3>2 DEF Exit
      <4>2. QED
        BY <3>1, <4>1
    <3>3. CASE row[p] # NoRow
      <4>1. cnt'[p] = Add(cnt[p], CountTimeOut(row[p]))
        BY <1>2, <3>3 DEF Exit
      <4>2. /\ cnt'[p] \in [Counters -> Nat]
            /\ \A n \in Counters \ {"time_out_cnt"} : cnt'[p][n] = cnt[p][n]
        BY <3>1, <4>1 DEF Add, CountTimeOut, When
      <4>3. QED
        BY <3>1, <4>2
           DEF GoodCounters, ExactCounters, Attributed, InvalidMismatches, Counters,
               Categories, Wrong, Total
    <3>4. QED
      BY <3>2, <3>3
  <2>2. cnt' \in [Projects -> [Counters -> Nat]]
    BY <1>2, <2>1 DEF Exit
  <2>3. exited' = TRUE /\ analysed' = analysed /\ unique' = unique /\ causeless' = causeless
    BY <1>2 DEF Exit
  <2>4. QED
    BY <2>1, <2>2, <2>3
<1>3. CASE UNCHANGED vars
  BY <1>3 DEF vars
<1>4. QED
  BY Zenon, <1>1, <1>2, <1>3 DEF Next, Finished, Messages

\* A part is never a larger share than the whole.
LEMMA RateBound ==
  ASSUME NEW a \in Nat, NEW b \in Nat, a <= b
  PROVE  get_percent_rate(a, b) <= 1000
BY DEF get_percent_rate

\* The counters keep their types, and the invariant holds throughout.
THEOREM Invariant == Spec => []Inv
BY InvInit, InvStep, PTL DEF Spec

\* Every number of a table row is made up of its parts, whatever the rows, as
\* long as the switched off rules have causes.
THEOREM PartsAddUpHolds == Spec => []PartsAddUp
<1>1. Inv => PartsAddUp
  BY DEF Inv, PartsAddUp, GoodCounters, ExactCounters
<1>2. QED
  BY <1>1, Invariant, PTL

\* No reported rate exceeds 100 percent.
THEOREM RatesHold == Spec => []RatesArePercentages
<1>1. Inv => RatesArePercentages
  <2> SUFFICES ASSUME Inv, NEW p \in Projects
               PROVE  /\ \A k \in Categories :
                           get_percent_rate(cnt[p][Wrong[k]], cnt[p][Total[k]]) <= 1000
                      /\ get_percent_rate(cnt[p]["true_mismatch_cnt"],
                           cnt[p]["true_validate_cnt"] + cnt[p]["true_mismatch_cnt"]) <= 1000
                      /\ get_percent_rate(cnt[p]["wrong_validate_cnt"], total_cnt) <= 1000
    BY DEF RatesArePercentages
  <2>1. \A n \in Counters : cnt[p][n] \in Nat
    BY DEF Inv, TypeOK
  <2>2. \A k \in Categories :
          get_percent_rate(cnt[p][Wrong[k]], cnt[p][Total[k]]) <= 1000
    BY <2>1, CategoryCounters, RateBound DEF Inv, GoodCounters
  <2>3. PICK t \in Nat, f \in Nat :
          cnt[p]["true_validate_cnt"] = t /\ cnt[p]["true_mismatch_cnt"] = f
    BY <2>1 DEF Counters
  <2>4. t + f \in Nat /\ f <= t + f
    OBVIOUS
  <2>5. get_percent_rate(f, t + f) <= 1000
    BY <2>4, RateBound
  <2>6. cnt[p]["wrong_validate_cnt"] \in Nat
        /\ cnt[p]["wrong_validate_cnt"] <= NMessage /\ NMessage \in Nat
    BY <2>1, ValidatorAssumption DEF Inv, TypeOK, Counters
  <2>7. get_percent_rate(cnt[p]["wrong_validate_cnt"], total_cnt) <= 1000
    BY <2>6, RateBound DEF total_cnt
  <2>8. QED
    BY <2>2, <2>3, <2>5, <2>7
<1>2. QED
  BY <1>1, Invariant, PTL

\* A row without a response is counted as a mismatch in every result.
THEOREM SilenceHolds == Spec => []SilenceIsMismatch
<1>1. Inv => SilenceIsMismatch
  BY DEF Inv, SilenceIsMismatch
<1>2. QED
  BY <1>1, Invariant, PTL

\* No mismatch of an invalid message is left without a cause that its rule
\* has.
THEOREM AttributionHolds == Spec => []MismatchesAttributed
<1>1. Inv => MismatchesAttributed
  BY DEF Inv, MismatchesAttributed, GoodCounters, ExactCounters, Attributed, KeysAttributed
<1>2. QED
  BY <1>1, Invariant, PTL

=============================================================================
