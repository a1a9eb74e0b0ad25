---------------------------- MODULE OcppExchange ----------------------------
(***************************************************************************)
(* One exchange of ocpp-go: a request goes from the API of one side through *)
(* validation to the wire, is parsed, validated and routed to a handler on   *)
(* the other side, and the answer comes back to the caller's callback.       *)
(* Either side may be the caller.  Each side may lack the profile of the     *)
(* feature, have no handler for it, or have message validation switched off  *)
(* (SetMessageValidation).  The queues below (OcppjClient, OcppjServer) are  *)
(* abstracted to one pending request; a request may time out at any moment,  *)
(* and a write of the callee may fail.  A caller that is not ocpp-go may     *)
(* send a frame that is no CALL.                                             *)
(***************************************************************************)
EXTENDS OcppMessages, SequencesExt

V201 == INSTANCE OcppApi201
V16 == INSTANCE OcppApi16

Versions == {"1.6", "2.0.1"}
Sides == {"station", "system"}
Peer(s) == IF s = "station" THEN "system" ELSE "station"

----------------------------------------------------------------------------
(* What the packages of each version declare.                               *)

\* types.Validate is the one validator of the process; every package's init adds to it.
Files == [v \in Versions |-> IF v = "1.6" THEN V16!Files ELSE V201!Files]

Merged(fs, part(_)) ==
    [x \in UNION {DOMAIN part(fs[i]) : i \in DOMAIN fs} |->
        part(fs[CHOOSE i \in DOMAIN fs : x \in DOMAIN part(fs[i])])[x]]

TypesOf(f) == f.types
TagsOf(f) == f.tags
Types == [v \in Versions |-> Merged(Files[v], TypesOf)]

\* logging/log_status_notification.go imports the 2.0.1 types, whose init registers its
\* functions (hashAlgorithm among them) for a 1.6 program as well.
ImportedTags == Merged(V201!TypesPackage, TagsOf)

Tags ==
    [v \in Versions |->
        IF v = "1.6" THEN Merged(Files[v], TagsOf) @@ ImportedTags
                     ELSE Merged(Files[v], TagsOf)]

BuiltinTags == {"required", "max", "min", "gte", "gt", "lte", "lt", "uri", "url", "unique"}

Profiles ==
    [v \in Versions |-> [s \in Sides |->
        CASE v = "1.6" /\ s = "system" -> V16!CentralSystemProfiles
          [] v = "1.6" /\ s = "station" -> V16!ChargePointProfiles
          [] v = "2.0.1" /\ s = "system" -> V201!CSMSProfiles
          [] v = "2.0.1" /\ s = "station" -> V201!ChargingStationProfiles]]

\* Endpoint.GetProfileForFeature on an endpoint with every profile.
Features == [v \in Versions |->
    UNION {DOMAIN Profiles[v]["system"][i].features : i \in DOMAIN Profiles[v]["system"]}]
ProfileOf(v, s, feature) ==
    LET ps == Profiles[v][s] IN
    ps[CHOOSE i \in DOMAIN ps : /\ feature \in DOMAIN ps[i].features
                               /\ \A j \in 1..(i - 1) : feature \notin DOMAIN ps[j].features]
Feature ==
    [v \in Versions |-> [s \in Sides |->
        [f \in Features[v] |-> ProfileOf(v, s, f).features[f]]]]

Calls ==
    [v \in Versions |-> [s \in Sides |->
        CASE v = "1.6" /\ s = "system" -> V16!CentralSystemCalls
          [] v = "1.6" /\ s = "station" -> V16!ChargePointCalls
          [] v = "2.0.1" /\ s = "system" -> V201!CSMSCalls
          [] v = "2.0.1" /\ s = "station" -> V201!ChargingStationCalls]]

Async ==
    [v \in Versions |-> [s \in Sides |->
        CASE v = "1.6" /\ s = "system" -> V16!CentralSystemAsync
          [] v = "1.6" /\ s = "station" -> V16!ChargePointAsync
          [] v = "2.0.1" /\ s = "system" -> V201!CSMSAsync
          [] v = "2.0.1" /\ s = "station" -> V201!ChargingStationAsync]]

NilChecked ==
    [v \in Versions |-> [s \in Sides |->
        CASE v = "1.6" /\ s = "system" -> V16!CentralSystemNilChecked
          [] v = "1.6" /\ s = "station" -> V16!ChargePointNilChecked
          [] v = "2.0.1" /\ s = "system" -> V201!CSMSNilChecked
          [] v = "2.0.1" /\ s = "station" -> V201!ChargingStationNilChecked]]

Route ==
    [v \in Versions |-> [s \in Sides |->
        CASE v = "1.6" /\ s = "system" -> V16!CentralSystemRoute
          [] v = "1.6" /\ s = "station" -> V16!ChargePointRoute
          [] v = "2.0.1" /\ s = "system" -> V201!CSMSRoute
          [] v = "2.0.1" /\ s = "station" -> V201!ChargingStationRoute]]

\* SetDialect: NewChargingStation, NewChargePoint, newCSMS and newCentralSystem.
DialectUnset(v, s) == IF s = "system" THEN "none" ELSE v
Dialect(v, s) == v

----------------------------------------------------------------------------
(* Validation: go-playground/validator over the rules of the structs.       *)

RECURSIVE Absent(_, _), Reach(_, _)

\* The verdict on an absent field; a struct held by value is validated with every field
\* of its own absent.
Absent(v, fld) ==
    IF fld.absent # {"zero"} THEN fld.absent
    ELSE LET S == Types[v][fld.of].fields
             broken == UNION {Absent(v, S[f]) : f \in DOMAIN S} \ {"ok"}
         IN IF broken = {} THEN {"ok"} ELSE broken

\* The structs the validator can descend into from struct T.
Reach(v, T) ==
    LET S == Types[v][T].fields IN
    {T} \cup UNION {Reach(v, S[f].of) : f \in {g \in DOMAIN S : S[g].of # ""}}

ReachOf == [v \in Versions |-> [T \in DOMAIN Types[v] |-> Reach(v, T)]]

\* Validating a struct with a tag nobody registered makes the validator panic.
TagsUsed(v, T) ==
    UNION {UNION {Types[v][S].fields[f].invalid : f \in DOMAIN Types[v][S].fields}
            : S \in ReachOf[v][T]}
Panics == [v \in Versions |-> {T \in DOMAIN Types[v] :
                \E t \in TagsUsed(v, T) : t \notin BuiltinTags \cup DOMAIN Tags[v]}]

Msg(T, form, S, f, verdict) ==
    [type |-> T, form |-> form, at |-> S, field |-> f, verdict |-> verdict]

\* The messages of type T: with every field, as its constructor leaves it, and with one
\* field, in T or in a struct inside it, absent, invalid, or set to a constant declared
\* for its type that the type's validation function does not list.
Whole(v, T) ==
    LET S == Types[v][T]
        broken == UNION {Absent(v, S.fields[f]) : f \in DOMAIN S.fields \ S.args} \ {"ok"}
    IN {Msg(T, "full", T, "", "ok")}
         \cup {Msg(T, "new", T, "", x) : x \in IF broken = {} THEN {"ok"} ELSE broken}

OneField(v, T, S, f) ==
    LET fld == Types[v][S].fields[f] IN
         {Msg(T, "absent", S, f, x) : x \in Absent(v, fld)}
    \cup {Msg(T, "invalid", S, f, t) : t \in fld.invalid}
    \cup {Msg(T, "declared", S, f, t) :
            t \in {u \in fld.invalid \cap DOMAIN Tags[v] : Tags[v][u] # {}}}

Forms ==
    [v \in Versions |-> [T \in DOMAIN Types[v] |->
        Whole(v, T) \cup UNION {UNION {OneField(v, T, S, f) : f \in DOMAIN Types[v][S].fields}
                                  : S \in ReachOf[v][T]}]]

\* errorFromValidation: the code of the CALLERROR for a broken rule.
OccurrenceConstraintErrorType ==
    [d \in Versions |-> IF d = "1.6" THEN "OccurenceConstraintViolation"
                                     ELSE "OccurrenceConstraintViolation"]

FormatErrorType ==
    [d \in Versions |-> IF d = "1.6" THEN "FormationViolation" ELSE "FormatViolation"]

ErrorFromValidation(d, tag) ==
    CASE tag = "required" -> OccurrenceConstraintErrorType[d]
      [] tag \in {"max", "min", "gte", "gt", "lte", "lt"} -> "PropertyConstraintViolation"
      [] OTHER -> "GenericError"

----------------------------------------------------------------------------

VARIABLES
    setup,      \* the exchange: version, calling side, feature, and how the sides are set up
    caller,     \* "idle", "waiting" (request pending), "refused", "returned"
    callee,     \* "idle", "handling" (inside the handler), "done"
    call,       \* the request sent, with the method that sent it and its frame
    returned,   \* what the handler returned
    answer,     \* the answer on its way to the caller
    answers,    \* number of answers the callee has written
    failed,     \* a write of the callee has failed
    stray,      \* the caller's CALLERROR about the answer is on its way to the callee
    result,     \* what the caller's callback was given
    panic       \* a goroutine of either side has panicked

vars == <<setup, caller, callee, call, returned, answer, answers, failed, stray, result, panic>>

V == setup.version
Here == setup.caller
There == Peer(setup.caller)

Nothing == [kind |-> "none"]
Response(m) == [kind |-> "result", msg |-> m]
Error(code) == [kind |-> "error", code |-> code]

\* The profiles passed to NewClient and NewServer, SetCoreHandler and the other setters,
\* and SetMessageValidation: one of them departs from the default at a time.
AllTrue == [s \in Sides |-> TRUE]

Setup(v, s, f, strict, profile, handler) ==
    [version |-> v, caller |-> s, feature |-> f,
     strict |-> strict, profile |-> profile, handler |-> handler]

Setups(v, s, f) ==
         {Setup(v, s, f, strict, AllTrue, TRUE) : strict \in [Sides -> BOOLEAN]}
    \cup {Setup(v, s, f, AllTrue, profile, TRUE) : profile \in [Sides -> BOOLEAN]}
    \cup {Setup(v, s, f, AllTrue, AllTrue, FALSE)}

Init ==
    /\ \E v \in Versions, s \in Sides : \E f \in Features[v] : setup \in Setups(v, s, f)
    /\ caller = "idle" /\ callee = "idle"
    /\ call = [msg |-> Msg("", "", "", "", ""), via |-> "", frame |-> ""]
    /\ returned = [kind |-> "unset"] /\ answer = Nothing /\ result = Nothing
    /\ answers = 0 /\ failed = FALSE
    /\ stray = FALSE
    /\ panic = FALSE

----------------------------------------------------------------------------
(* The caller sends its request.                                            *)

\* A method of the side's interface, or a request built by the program and passed to
\* SendRequestAsync or, on a station, to SendRequest.
Vias ==
    {via \in {"method", "SendRequest", "SendRequestAsync"} :
        /\ via = "method" => setup.feature \in DOMAIN Calls[V][Here]
        /\ via = "SendRequest" => Here = "station"}

\* SendRequestAsync has a list of the features the side may send; SendRequest has none,
\* and the methods of a station use it.
Listed(via) ==
    \/ via = "SendRequest"
    \/ via = "method" /\ Here = "station"
    \/ setup.feature \in Async[V][Here]

SendRequest(via, m) ==
    /\ caller = "idle"
    /\ ~panic
    /\ call' = [msg |-> m, via |-> via, frame |-> "call"]
    /\ IF ~setup.profile[Here] \/ ~Listed(via)
       THEN caller' = "refused" /\ UNCHANGED panic
       ELSE /\ panic' = (setup.strict[Here] /\ m.type \in Panics[V])
            /\ caller' = IF setup.strict[Here] /\ m.verdict # "ok" THEN "refused" ELSE "waiting"
    /\ UNCHANGED <<setup, callee, returned, answer, answers, failed, stray, result>>

\* A frame of a caller that is not ocpp-go: without a usable id, without an action, or
\* with a payload that is none of the action's.
SendFrame(frame) ==
    LET T == Feature[V][Here][setup.feature].request IN
    /\ caller = "idle" /\ ~panic
    /\ call' = [msg |-> Msg(T, "full", T, "", "ok"), via |-> "frame", frame |-> frame]
    /\ caller' = "waiting"
    /\ UNCHANGED <<setup, callee, returned, answer, answers, failed, stray, result, panic>>

----------------------------------------------------------------------------
(* The callee answers.                                                      *)

\* Endpoint.SendResponse and SendError: what they write, if they do not fail.
IsErrorCodeValid(code) == code # "Unknown"

Invalid(a) ==
    IF a.kind = "result" THEN a.msg.verdict
    ELSE IF IsErrorCodeValid(a.code) THEN "ok" ELSE "errorCode"

Written(s, a) == IF setup.strict[s] /\ Invalid(a) # "ok" THEN {} ELSE {a}

\* occurrenceViolation and FormatErrorType panic for an endpoint without a dialect.
NoDialect(s, tag) == tag \in {"required", "format"} /\ Dialect(V, s) \notin Versions

\* HandleFailedResponseError: one more attempt, with an error made from the failure.
Retried(s, a) == Written(s, Error(ErrorFromValidation(Dialect(V, s), Invalid(a))))
WriteFailed == Error("GenericError")

Answer(sent) ==
    /\ answers' = answers + Cardinality(sent)
    /\ answer' = IF sent = {} THEN Nothing ELSE CHOOSE a \in sent : TRUE
    /\ callee' = "done"

\* ocppMessageHandler and, for a valid CALL, handleIncomingRequest. An error that has no
\* id is not sent. The write of a refusal is not repeated.
ReceiveCall(up) ==
    LET m == call.msg
        f == setup.feature
        refuse(code) == /\ Answer(IF up THEN Written(There, Error(code)) ELSE {})
                        /\ failed' = ~up
                        /\ UNCHANGED panic
        stop(p) == up /\ panic' = p /\ callee' = "done" /\ UNCHANGED <<answer, answers, failed>>
        name == ProfileOf(V, There, f).name
    IN
    /\ caller \in {"waiting", "returned"} /\ callee = "idle"
    /\ ~panic
    /\ IF call.frame \in {"noId", "noAction"} /\ NoDialect(There, "format") THEN stop(TRUE)
       ELSE IF call.frame = "noId" THEN stop(FALSE)
       ELSE IF call.frame = "noAction" THEN refuse(FormatErrorType[Dialect(V, There)])
       ELSE IF ~setup.profile[There] THEN refuse("NotSupported")
       ELSE IF call.frame = "noPayload" /\ ~NoDialect(There, "format")
       THEN refuse(FormatErrorType[Dialect(V, There)])
       ELSE IF \/ call.frame = "noPayload" \/ m.type \in Panics[V]
               \/ NoDialect(There, m.verdict)
       THEN stop(TRUE)
       ELSE IF m.verdict # "ok"
       THEN refuse(ErrorFromValidation(Dialect(V, There), m.verdict))
       ELSE IF \/ name \in NilChecked[V][There] /\ ~setup.handler
               \/ f \notin DOMAIN Route[V][There]
       THEN refuse("NotSupported")
       ELSE /\ up /\ callee' = "handling"
            /\ panic' = (~setup.handler \/ Route[V][There][f] # name)
            /\ UNCHANGED <<answer, answers, failed>>
    /\ UNCHANGED <<setup, caller, call, returned, stray, result>>

\* What a handler can return: a response, nil, an ocpp.Error with a code of the protocol
\* or not, and another error.  (Bound: at most one of the request and the response has a
\* field that is absent, invalid or refused.)
Plain(m) == m.form \in {"full", "new"}

Outcomes ==
         {Response(m) : m \in {n \in Forms[V][Feature[V][There][setup.feature].response] :
                                 Plain(call.msg) \/ Plain(n)}}
    \cup {Nothing, Error("SecurityError"), Error("Unknown"), Error("plain")}

\* Mutant of Reply: a missing response is reported as an internal error.
ReplyInternal(r) ==
    CASE r \in {Nothing, Error("plain")} -> Error("InternalError")
      [] OTHER -> r

\* sendResponse: nil and an error that is no ocpp.Error become errors of its own.
Reply(r) ==
    CASE r = Nothing -> Error("GenericError")
      [] r = Error("plain") -> Error("InternalError")
      [] OTHER -> r

\* Mutant of SendResponse: a response that does not validate is not replaced.
SendResponseOnce(r) == SetToSeq(Written(There, Reply(r)))

\* What sendResponse writes, each when the write before it has failed. A missing response
\* has one attempt.
SendResponse(r) ==
    LET first == Written(There, Reply(r))
    IN IF first = {} THEN SetToSeq(Retried(There, Reply(r)))
       ELSE SetToSeq(first) \o IF r = Nothing THEN <<>> ELSE <<WriteFailed>>

HandlerReturns(r, fails) ==
    LET attempts == SendResponse(r) IN
    /\ callee = "handling" /\ ~panic
    /\ fails <= Len(attempts)
    /\ returned' = r
    /\ panic' = (r.kind = "result" /\ setup.strict[There] /\
                   (r.msg.type \in Panics[V] \/ NoDialect(There, r.msg.verdict)))
    /\ Answer(IF fails < Len(attempts) THEN {attempts[fails + 1]} ELSE {})
    /\ failed' = (fails > 0)
    /\ UNCHANGED <<setup, caller, call, stray, result>>

----------------------------------------------------------------------------
(* The caller receives the answer.                                          *)

\* ocppMessageHandler: the answer to a request that is no longer pending is dropped; an
\* answer that does not validate is answered with a CALLERROR and leaves the request
\* pending; a valid one completes it and is passed to the callback, which asserts the type.
ReceiveAnswerUnchecked ==
    /\ answer.kind # "none" /\ ~panic
    /\ answer' = Nothing
    /\ IF caller # "waiting" \/ answer = Error("Unknown")
       THEN UNCHANGED <<caller, result, stray, panic>>
       ELSE /\ caller' = "returned"
            /\ result' = answer
            /\ UNCHANGED <<stray, panic>>
    /\ UNCHANGED <<setup, callee, call, returned, answers, failed>>

ReceiveAnswer ==
    /\ answer.kind # "none" /\ ~panic
    /\ answer' = Nothing
    /\ IF caller # "waiting" THEN UNCHANGED <<caller, result, stray, panic>>
       ELSE IF Invalid(answer) # "ok"
       THEN /\ stray' = ~NoDialect(Here, Invalid(answer))
            /\ panic' = NoDialect(Here, Invalid(answer))
            /\ UNCHANGED <<caller, result>>
       ELSE /\ caller' = "returned"
            /\ result' = answer
            /\ panic' = /\ answer.kind = "result"
                        /\ \/ answer.msg.type \in Panics[V]
                           \/ /\ call.via = "method"
                              /\ Calls[V][Here][setup.feature] # answer.msg.type
            /\ UNCHANGED stray
    /\ UNCHANGED <<setup, callee, call, returned, answers, failed>>

\* The CALLERROR the caller sent about an answer is for no request of the callee's.
ReceiveStray ==
    /\ stray /\ ~panic
    /\ stray' = FALSE
    /\ UNCHANGED <<setup, caller, callee, call, returned, answer, answers, failed, result, panic>>

\* The dispatcher gives up on the request (onRequestTimeout, handleCanceledRequest).
RequestCanceled ==
    /\ caller = "waiting" /\ ~panic
    /\ caller' = "returned"
    /\ result' = [kind |-> "canceled"]
    /\ UNCHANGED <<setup, callee, call, returned, answer, answers, failed, stray, panic>>

Next ==
    \/ \E via \in Vias :
         \E m \in Forms[V][Feature[V][Here][setup.feature].request] : SendRequest(via, m)
    \/ \E frame \in {"noId", "noAction", "noPayload"} : SendFrame(frame)
    \/ \E up \in BOOLEAN : ReceiveCall(up)
    \/ callee = "handling" /\ \E r \in Outcomes, fails \in 0..2 : HandlerReturns(r, fails)
    \/ ReceiveAnswer
    \/ ReceiveStray
    \/ RequestCanceled

Spec == Init /\ [][Next]_vars

----------------------------------------------------------------------------

\* Every CALL that reaches the callee is answered exactly once, whatever rule of its
\* struct it breaks and whatever is wrong with the callee's set-up or with what the
\* handler returns (sendResponse and HandleFailedResponseError, "to prevent starvation on
\* the other endpoint"). A frame without a usable id, and a callee whose writes fail,
\* leave it unanswered; nothing is answered twice.
AnsweredOnce ==
    callee = "done" /\ ~panic =>
        answers = 1 \/ (answers = 0 /\ (failed \/ call.frame = "noId"))

\* No goroutine panics: every tag a struct uses is registered by a package the program
\* imports, every endpoint has its dialect, the handler the action switch calls is the
\* one that was checked for nil, and a callback asserts the type of its feature.
NoPanic == ~panic

\* A response given to a callback is the one the peer's handler returned, and it is
\* valid, even when the peer has switched validation off.
ResponseIsHandlers ==
    result.kind = "result" => result = returned /\ result.msg.verdict = "ok"

\* A method called with the constructor's arguments alone is never refused, and with the
\* profile and a handler on the other side it ends in the handler's response unless the
\* handler fails, returns a faulty response, a write fails or the request times out.
PlainCallSucceeds ==
    call.via = "method" /\ Plain(call.msg) /\ setup.profile[Here] =>
        /\ caller # "refused"
        /\ setup.profile[There] /\ setup.handler /\ result.kind = "error" =>
               \/ returned.kind \in {"none", "error"} \/ failed
               \/ returned.kind = "result" /\ ~Plain(returned.msg)

\* The error codes that what happened on the callee's side accounts for.
Broken ==
    ({call.msg.verdict} \cup IF returned.kind = "result" THEN {returned.msg.verdict} ELSE {})
        \ {"ok"}

Accounted ==
         {c \in {"NotSupported"} :
             ~setup.profile[There] \/ ~setup.handler \/ setup.feature \notin DOMAIN Route[V][There]}
    \cup {c \in {FormatErrorType[V]} : call.frame \in {"noAction", "noPayload"}}
    \cup {c \in {OccurrenceConstraintErrorType[V]} : "required" \in Broken}
    \cup {c \in {"PropertyConstraintViolation"} :
             Broken \cap {"max", "min", "gte", "gt", "lte", "lt"} # {}}
    \cup {c \in {"SecurityError"} : returned = Error("SecurityError")}
    \cup {c \in {"InternalError"} : returned = Error("plain")}
    \cup {c \in {"GenericError"} :
             failed \/ returned \in {Nothing, Error("Unknown")} \/ Broken \cap DOMAIN Tags[V] # {}
                    \/ Broken \cap {"uri", "url", "unique"} # {}}

\* The error code a callback is given tells what went wrong on the other side, in the
\* spelling of the version: a refusal, a rule the request or the response breaks, an
\* error of the handler, or a write that failed, although each passes through up to two
\* attempts to answer and a parse on the way. A valid response never comes as an error.
ErrorTellsCause == result.kind = "error" => result.code \in Accounted
=============================================================================
