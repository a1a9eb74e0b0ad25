---------------------------- MODULE MaeveHandlers ----------------------------
(***************************************************************************)
(* The routing tables of the MaEVe manager.  A handler is the sequence of  *)
(* steps it takes in the store, in order; a step may fail.  Between two    *)
(* steps other managers, the synchronisation loops and the administration  *)
(* API may act.  A handler with no step reads and changes nothing: it only *)
(* sets trace attributes and builds its response; one that returns an      *)
(* error has the step EmitError, which ends it.  What a step does is in    *)
(* MaeveManager.                                                           *)
(***************************************************************************)
EXTENDS Sequences

-----------------------------------------------------------------------------
(* Calls of an OCPP 2.0.1 station.                                         *)

\* A failed token lookup is answered Unknown, never with an error, so it is
\* no step.
Authorize201 == <<>>

BootNotification201 == <<"SetDetails">>

FirmwareStatusNotification201 == <<>>

GetCertificateStatus201 == <<>>

Get15118EVCertificate201 == <<>>

Heartbeat201 == <<>>

LogStatusNotification201 == <<>>

MeterValues201 == <<>>

NotifyReport201 == <<>>

StatusNotification201 == <<>>

SecurityEventNotification201 == <<>>

\* The provider and the store may fail; the station is then told Rejected.
SignCertificate201 == <<"StoreCertificate">>

\* Created, updated or ended by reading the record and writing it back; the
\* end, with or without an end reading of the outlet, reads it once more to
\* calculate the cost.
TransactionEvent201(event) ==
  IF event \in {"Ended", "EndedBare"}
    THEN <<"FindTransaction", "WriteTransaction", "CalculateCost">>
    ELSE <<"FindTransaction", "WriteTransaction">>

\* The routes of an OCPP 2.0.1 call: the handler's steps by action.
CallRoutes201(arg) ==
  [Authorize                  |-> Authorize201,
   BootNotification           |-> BootNotification201,
   FirmwareStatusNotification |-> FirmwareStatusNotification201,
   GetCertificateStatus       |-> GetCertificateStatus201,
   Get15118EVCertificate      |-> Get15118EVCertificate201,
   Heartbeat                  |-> Heartbeat201,
   LogStatusNotification      |-> LogStatusNotification201,
   MeterValues                |-> MeterValues201,
   NotifyReport               |-> NotifyReport201,
   StatusNotification         |-> StatusNotification201,
   SignCertificate            |-> SignCertificate201,
   SecurityEventNotification  |-> SecurityEventNotification201,
   TransactionEvent           |-> TransactionEvent201(arg)]

-----------------------------------------------------------------------------
(* Calls of an OCPP 1.6 station.                                           *)

Authorize16 == <<"LookupToken">>

BootNotification16 == <<"SetDetails", "ReadSettings", "ClearRebootRequired">>

Heartbeat16 == <<>>

MeterValues16 == <<>>

SecurityEventNotification16 == <<>>

StatusNotification16 == <<>>

StartTransaction16 == <<"LookupToken", "FindTransaction", "WriteTransaction">>

\* The handler reads the record for its sequence number and begin reading;
\* the store reads it again before it writes.  Transaction data that do not
\* convert end the handler with an error.
StopTransaction16(arg) ==
  <<"LookupToken", "ReadTransaction">> \o
  IF arg = "signed" THEN <<"EmitError">> ELSE <<"FindTransaction", "WriteTransaction">>

\* has2be's Authorize dereferences the certificate status of the 2.0.1
\* response, which has one only when the request brought a certificate and
\* its token is accepted.
AuthorizeHas2be(certificate, accepted) ==
  IF certificate /\ accepted THEN <<>> ELSE <<"Panic">>

\* A vendor or message id without a route is answered with a status, data
\* that their schema refuses with an error.  The others go to the 2.0.1 or
\* has2be handlers, which assert the type of the request: one without data
\* is nil.
DataTransfer16(arg) ==
  CASE arg = "UnknownVendorId" -> <<>>
    [] arg = "malformed"       -> <<"EmitError">>
    [] arg = "SignCertificate" -> SignCertificate201
    [] arg = "has2be"          -> AuthorizeHas2be(TRUE, TRUE)
    [] arg = "refused"         -> AuthorizeHas2be(TRUE, FALSE)
    [] arg = "uncertified"     -> AuthorizeHas2be(FALSE, TRUE)
    [] OTHER                   -> <<"Panic">>

\* The routes of an OCPP 1.6 call.
CallRoutes16(arg) ==
  [BootNotification          |-> BootNotification16,
   Heartbeat                 |-> Heartbeat16,
   StatusNotification        |-> StatusNotification16,
   Authorize                 |-> Authorize16,
   StartTransaction          |-> StartTransaction16,
   StopTransaction           |-> StopTransaction16(arg),
   MeterValues               |-> MeterValues16,
   SecurityEventNotification |-> SecurityEventNotification16,
   DataTransfer              |-> DataTransfer16(arg)]

-----------------------------------------------------------------------------
(* Results of the manager's own calls.  "NoData" is a data transfer        *)
(* response without data.                                                  *)

ChangeConfigurationResult16 == <<"SetStatus", "ReadSettings", "TriggerBoot">>

\* Deletes every setting of the station, whatever its status.
SetVariablesResult201 == <<"DeleteSettings">>

\* The response is asserted to be of its type, which nil is not.
CertificateSignedResult201(status) ==
  IF status = "NoData" THEN <<"Panic">> ELSE <<"SetCertificateStatus">>

InstallCertificateResult201(status) ==
  IF status = "NoData" THEN <<"Panic">> ELSE <<"SetCertificateStatus">>

\* A response without data counts as accepted.
TriggerMessageResult201(status) ==
  IF status \in {"Accepted", "NoData"} THEN <<"DeleteTrigger">> ELSE <<"RefuseTrigger">>

TriggerMessageResult16 == <<>>

\* The routes of the results of the calls that the manager makes; those of
\* a 1.6 station's 2.0.1 messages are found by their data transfer's message.
CallResultRoutes(status) ==
  [ChangeConfiguration |-> ChangeConfigurationResult16,
   SetVariables        |-> SetVariablesResult201,
   CertificateSigned   |-> CertificateSignedResult201(status),
   InstallCertificate  |-> InstallCertificateResult201(status),
   TriggerMessage      |-> TriggerMessageResult201(status),
   TriggerMessage16    |-> TriggerMessageResult16]

-----------------------------------------------------------------------------
(* The router.                                                             *)

\* Mutant of RouteCall: a call without a route is dropped.
RouteCallDropped(routes, action, valid) ==
  IF action \in DOMAIN routes /\ valid
    THEN Append(routes[action], "EmitResult")
    ELSE <<>>

\* A call without a route is answered NotImplemented, one that its schema
\* refuses FormatViolation; the others run their handler and emit its
\* response.
RouteCall(routes, action, valid) ==
  IF action \in DOMAIN routes /\ valid
    THEN Append(routes[action], "EmitResult")
    ELSE <<"EmitError">>
=============================================================================
