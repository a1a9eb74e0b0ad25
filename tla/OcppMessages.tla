---------------------------- MODULE OcppMessages ----------------------------
(***************************************************************************)
(* How a message of ocpp-go is validated.  A struct is the rules of its     *)
(* fields; the values of a field are abstracted to what the rules tell      *)
(* apart: absent (Go's zero value, which is also what an omitted JSON key    *)
(* decodes to), invalid (against one of the field's rules) and well formed.  *)
(* The verdict on a value is "ok" or the tag of the rule it breaks.          *)
(***************************************************************************)
EXTENDS Naturals, Sequences, FiniteSets, TLC

None == <<>>

\* absent: the possible verdicts on the absent field; invalid: the rules a present
\* value can break (a lower and an upper bound, which are answered alike, are one);
\* of: the struct the validator descends into, if any.
Fld(absent, invalid, of) == [absent |-> absent, invalid |-> invalid, of |-> of]

\* A field without rules, and one that is only required.
Free == Fld({"ok"}, {}, "")
Need == Fld({"required"}, {}, "")

\* A field that may be missing (omitempty, a nil pointer or slice, or a rule zero keeps).
OptOf(tags, S) == Fld({"ok"}, tags, S)
Opt(tag) == OptOf({tag}, "")

\* A field tagged required.
ReqOf(tags, S) == Fld({"required"}, tags, S)
Req(tag) == ReqOf({tag}, "")

\* A field whose zero value breaks the rule itself (gt=0, an enumeration).
Zero(tag) == Fld({tag}, {tag}, "")

\* A struct held by value: the validator skips its own required tag and descends.
One(S) == Fld({"zero"}, {}, S)

\* IdToken.IdToken: required unless the token's type is NoAuthorization.
IdTokenValue == Fld({"ok", "required"}, {"max"}, "")

\* A struct with a constructor, which fills in args, and one without.
NewWithoutStatus(args, fields) == [args |-> args \ {"status"}, fields |-> fields]
New(args, fields) == [args |-> args, fields |-> fields]
Lit(fields) == New(DOMAIN fields, fields)

\* Validation functions that accept every constant declared for their type.
All(tags) == [t \in tags |-> {}]

=============================================================================
