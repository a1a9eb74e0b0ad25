---------------------------- MODULE OcppFeatures16 ----------------------------
(***************************************************************************)
(* The messages of OCPP 1.6 as the packages under ocpp-go/ocpp1.6 declare   *)
(* them; see OcppFeatures201 for the form of a definition.                  *)
(***************************************************************************)
EXTENDS OcppMessages

\* Shared types (types package).
IdTagTypes ==
    [types |->
        [IdTagInfo |-> New({"status"},
             [expiryDate |-> Free, parentIdTag |-> Opt("max"),
              status |-> Req("authorizationStatus16")])],
     tags |-> All({"authorizationStatus16"})]

ChargingTypes ==
    [types |->
        [ChargingSchedulePeriod |-> New({"startPeriod", "limit"},
             [startPeriod |-> Opt("gte"), limit |-> Opt("gte"), numberPhases |-> Opt("gte")]),
         ChargingSchedule |-> New({"chargingRateUnit", "chargingSchedulePeriod"},
             [duration |-> Opt("gte"), startSchedule |-> Free,
              chargingRateUnit |-> Req("chargingRateUnit16"),
              chargingSchedulePeriod |-> Req("min"), minChargingRate |-> Opt("gte")]),
         ChargingProfile |-> New({"chargingProfileId", "stackLevel", "chargingProfilePurpose", "chargingProfileKind", "chargingSchedule"},
             [chargingProfileId |-> Free, transactionId |-> Free, stackLevel |-> Opt("gte"),
              chargingProfilePurpose |-> Req("chargingProfilePurpose16"),
              chargingProfileKind |-> Req("chargingProfileKind16"),
              recurrencyKind |-> Opt("recurrencyKind16"), validFrom |-> Free, validTo |-> Free,
              chargingSchedule |-> ReqOf({}, "ChargingSchedule")])],
     tags |-> All({"chargingProfilePurpose16", "chargingProfileKind16", "recurrencyKind16",
                   "chargingRateUnit16", "remoteStartStopStatus16"})]

MeterTypes ==
    [types |->
        [SampledValue |-> Lit([value |-> Need, context |-> Opt("readingContext16"),
             format |-> Opt("valueFormat"), measurand |-> Opt("measurand16"),
             phase |-> Opt("phase16"), location |-> Opt("location16"),
             unit |-> Opt("unitOfMeasure")]),
         MeterValue |-> Lit([timestamp |-> Need,
             sampledValue |-> ReqOf({"min"}, "SampledValue")])],
     tags |-> All({"readingContext16", "valueFormat", "measurand16", "phase16", "location16",
                   "unitOfMeasure"})]

SecurityTypes ==
    [types |->
        [StatusInfo |-> New({"reasonCode", "additionalInfo"},
             [reasonCode |-> Req("max"), additionalInfo |-> Opt("max")]),
         CertificateHashData |-> Lit([hashAlgorithm |-> Req("hashAlgorithm"),
             issuerNameHash |-> Req("max"), issuerKeyHash |-> Req("max"),
             serialNumber |-> Req("max")])],
     tags |-> All({"certificateSigningUse16", "certificateUse16", "genericStatus16"})]

\* Package certificates.
DeleteCertificate ==
    [request |-> "DeleteCertificateRequest",
     response |-> "DeleteCertificateResponse",
     types |->
        [DeleteCertificateRequest |-> New({"certificateHashData"},
             [certificateHashData |-> One("CertificateHashData")]),
         DeleteCertificateResponse |-> New({"status"},
             [status |-> Req("deleteCertificateStatus16")])],
     tags |-> All({"deleteCertificateStatus16"})]

GetInstalledCertificateIds ==
    [request |-> "GetInstalledCertificateIdsRequest",
     response |-> "GetInstalledCertificateIdsResponse",
     types |->
        [GetInstalledCertificateIdsRequest |-> New({"certificateType"},
             [certificateType |-> Req("certificateUse16")]),
         GetInstalledCertificateIdsResponse |-> New({"status"},
             [status |-> Req("getInstalledCertificateStatus16"),
              certificateHashData |-> OptOf({}, "CertificateHashData")])],
     tags |-> All({"getInstalledCertificateStatus16"})]

InstallCertificate ==
    [request |-> "InstallCertificateRequest",
     response |-> "InstallCertificateResponse",
     types |->
        [InstallCertificateRequest |-> New({"certificateType", "certificate"},
             [certificateType |-> Req("certificateUse16"), certificate |-> Req("max")]),
         InstallCertificateResponse |-> New({"status"},
             [status |-> Req("installCertificateStatus16")])],
     tags |-> All({"installCertificateStatus16"})]

\* Package core.
Authorize ==
    [request |-> "AuthorizeRequest",
     response |-> "AuthorizeConfirmation",
     types |->
        [AuthorizeRequest |-> New({"idTag"}, [idTag |-> Req("max")]),
         AuthorizeConfirmation |-> New({"idTagInfo"}, [idTagInfo |-> ReqOf({}, "IdTagInfo")])],
     tags |-> None]

BootNotification ==
    [request |-> "BootNotificationRequest",
     response |-> "BootNotificationConfirmation",
     types |->
        [BootNotificationRequest |-> New({"chargePointModel", "chargePointVendor"},
             [chargeBoxSerialNumber |-> Opt("max"), chargePointModel |-> Req("max"),
              chargePointSerialNumber |-> Opt("max"), chargePointVendor |-> Req("max"),
              firmwareVersion |-> Opt("max"), iccid |-> Opt("max"), imsi |-> Opt("max"),
              meterSerialNumber |-> Opt("max"), meterType |-> Opt("max")]),
         BootNotificationConfirmation |-> New({"currentTime", "interval", "status"},
             [currentTime |-> Need, interval |-> Opt("gte"),
              status |-> Req("registrationStatus16")])],
     tags |-> All({"registrationStatus16"})]

ChangeAvailability ==
    [request |-> "ChangeAvailabilityRequest",
     response |-> "ChangeAvailabilityConfirmation",
     types |->
        [ChangeAvailabilityRequest |-> New({"connectorId", "type"},
             [connectorId |-> Opt("gte"), type |-> Req("availabilityType")]),
         ChangeAvailabilityConfirmation |-> New({"status"},
             [status |-> Req("availabilityStatus")])],
     tags |-> All({"availabilityType", "availabilityStatus"})]

ChangeConfiguration ==
    [request |-> "ChangeConfigurationRequest",
     response |-> "ChangeConfigurationConfirmation",
     types |->
        [ChangeConfigurationRequest |-> New({"key", "value"},
             [key |-> Req("max"), value |-> Req("max")]),
         ChangeConfigurationConfirmation |-> New({"status"},
             [status |-> Req("configurationStatus")])],
     tags |-> All({"configurationStatus"})]

ClearCache ==
    [request |-> "ClearCacheRequest",
     response |-> "ClearCacheConfirmation",
     types |->
        [ClearCacheRequest |-> Lit(None),
         ClearCacheConfirmation |-> New({"status"}, [status |-> Req("cacheStatus16")])],
     tags |-> All({"cacheStatus16"})]

DataTransfer ==
    [request |-> "DataTransferRequest",
     response |-> "DataTransferConfirmation",
     types |->
        [DataTransferRequest |-> New({"vendorId"},
             [vendorId |-> Req("max"), messageId |-> Opt("max"), data |-> Free]),
         DataTransferConfirmation |-> New({"status"},
             [status |-> Req("dataTransferStatus16"), data |-> Free])],
     tags |-> All({"dataTransferStatus16"})]

GetConfiguration ==
    [request |-> "GetConfigurationRequest",
     response |-> "GetConfigurationConfirmation",
     types |->
        [ConfigurationKey |-> Lit([key |-> Req("max"), readonly |-> Free, value |-> Opt("max")]),
         GetConfigurationRequest |-> New({"key"}, [key |-> OptOf({"unique", "max"}, "")]),
         GetConfigurationConfirmation |-> New({"configurationKey"},
             [configurationKey |-> OptOf({}, "ConfigurationKey"), unknownKey |-> Opt("max")])],
     tags |-> None]

Heartbeat ==
    [request |-> "HeartbeatRequest",
     response |-> "HeartbeatConfirmation",
     types |->
        [HeartbeatRequest |-> Lit(None),
         HeartbeatConfirmation |-> New({"currentTime"}, [currentTime |-> Need])],
     tags |-> None]

MeterValues ==
    [request |-> "MeterValuesRequest",
     response |-> "MeterValuesConfirmation",
     types |->
        [MeterValuesRequest |-> New({"connectorId", "meterValue"},
             [connectorId |-> Opt("gte"), transactionId |-> Free,
              meterValue |-> ReqOf({"min"}, "MeterValue")]),
         MeterValuesConfirmation |-> Lit(None)],
     tags |-> None]

RemoteStartTransaction ==
    [request |-> "RemoteStartTransactionRequest",
     response |-> "RemoteStartTransactionConfirmation",
     types |->
        [RemoteStartTransactionRequest |-> New({"idTag"},
             [connectorId |-> Opt("gt"), idTag |-> Req("max"),
              chargingProfile |-> OptOf({}, "ChargingProfile")]),
         RemoteStartTransactionConfirmation |-> New({"status"},
             [status |-> Req("remoteStartStopStatus16")])],
     tags |-> None]

RemoteStopTransaction ==
    [request |-> "RemoteStopTransactionRequest",
     response |-> "RemoteStopTransactionConfirmation",
     types |->
        [RemoteStopTransactionRequest |-> New({"transactionId"}, [transactionId |-> Free]),
         RemoteStopTransactionConfirmation |-> New({"status"},
             [status |-> Req("remoteStartStopStatus16")])],
     tags |-> None]

Reset ==
    [request |-> "ResetRequest",
     response |-> "ResetConfirmation",
     types |->
        [ResetRequest |-> New({"type"}, [type |-> Req("resetType16")]),
         ResetConfirmation |-> New({"status"}, [status |-> Req("resetStatus16")])],
     tags |-> All({"resetType16", "resetStatus16"})]

StartTransaction ==
    [request |-> "StartTransactionRequest",
     response |-> "StartTransactionConfirmation",
     types |->
        [StartTransactionRequest |-> New({"connectorId", "idTag", "meterStart", "timestamp"},
             [connectorId |-> Zero("gt"), idTag |-> Req("max"), meterStart |-> Opt("gte"),
              reservationId |-> Free, timestamp |-> Need]),
         StartTransactionConfirmation |-> New({"idTagInfo", "transactionId"},
             [idTagInfo |-> ReqOf({}, "IdTagInfo"), transactionId |-> Free])],
     tags |-> None]

StatusNotification ==
    [request |-> "StatusNotificationRequest",
     response |-> "StatusNotificationConfirmation",
     types |->
        [StatusNotificationRequest |-> New({"connectorId", "errorCode", "status"},
             [connectorId |-> Opt("gte"), errorCode |-> Req("chargePointErrorCode"),
              info |-> Opt("max"), status |-> Req("chargePointStatus"), timestamp |-> Free,
              vendorId |-> Opt("max"), vendorErrorCode |-> Opt("max")]),
         StatusNotificationConfirmation |-> Lit(None)],
     tags |-> All({"chargePointErrorCode", "chargePointStatus"})]

StopTransaction ==
    [request |-> "StopTransactionRequest",
     response |-> "StopTransactionConfirmation",
     types |->
        [StopTransactionRequest |-> New({"meterStop", "timestamp", "transactionId"},
             [idTag |-> Opt("max"), meterStop |-> Free, timestamp |-> Need,
              transactionId |-> Free, reason |-> Opt("reason"),
              transactionData |-> OptOf({}, "MeterValue")]),
         StopTransactionConfirmation |-> New({}, [idTagInfo |-> OptOf({}, "IdTagInfo")])],
     tags |-> All({"reason"})]

UnlockConnector ==
    [request |-> "UnlockConnectorRequest",
     response |-> "UnlockConnectorConfirmation",
     types |->
        [UnlockConnectorRequest |-> New({"connectorId"}, [connectorId |-> Zero("gt")]),
         UnlockConnectorConfirmation |-> New({"status"}, [status |-> Req("unlockStatus16")])],
     tags |-> All({"unlockStatus16"})]

\* Package extendedtriggermessage.
ExtendedTriggerMessage ==
    [request |-> "ExtendedTriggerMessageRequest",
     response |-> "ExtendedTriggerMessageResponse",
     types |->
        [ExtendedTriggerMessageRequest |-> New({"requestedMessage"},
             [requestedMessage |-> Req("extendedTriggerMessageType"),
              connectorId |-> Opt("gte")]),
         ExtendedTriggerMessageResponse |-> New({"status"},
             [status |-> Req("extendedTriggerMessageStatus")])],
     tags |-> All({"extendedTriggerMessageType", "extendedTriggerMessageStatus"})]

\* Package firmware.
DiagnosticsStatusNotification ==
    [request |-> "DiagnosticsStatusNotificationRequest",
     response |-> "DiagnosticsStatusNotificationConfirmation",
     types |->
        [DiagnosticsStatusNotificationRequest |-> New({"status"},
             [status |-> Req("diagnosticsStatus")]),
         DiagnosticsStatusNotificationConfirmation |-> Lit(None)],
     tags |-> All({"diagnosticsStatus"})]

FirmwareStatusNotification ==
    [request |-> "FirmwareStatusNotificationRequest",
     response |-> "FirmwareStatusNotificationConfirmation",
     types |->
        [FirmwareStatusNotificationRequest |-> New({"status"},
             [status |-> Req("firmwareStatus16")]),
         FirmwareStatusNotificationConfirmation |-> Lit(None)],
     tags |-> All({"firmwareStatus16"})]

GetDiagnostics ==
    [request |-> "GetDiagnosticsRequest",
     response |-> "GetDiagnosticsConfirmation",
     types |->
        [GetDiagnosticsRequest |-> New({"location"},
             [location |-> Req("uri"), retries |-> Opt("gte"), retryInterval |-> Opt("gte"),
              startTime |-> Free, stopTime |-> Free]),
         GetDiagnosticsConfirmation |-> New({}, [fileName |-> Opt("max")])],
     tags |-> None]

UpdateFirmware ==
    [request |-> "UpdateFirmwareRequest",
     response |-> "UpdateFirmwareConfirmation",
     types |->
        [UpdateFirmwareRequest |-> New({"location", "retrieveDate"},
             [location |-> Req("uri"), retries |-> Opt("gte"), retrieveDate |-> Need,
              retryInterval |-> Opt("gte")]),
         UpdateFirmwareConfirmation |-> Lit(None)],
     tags |-> None]

\* Package localauth.
GetLocalListVersion ==
    [request |-> "GetLocalListVersionRequest",
     response |-> "GetLocalListVersionConfirmation",
     types |->
        [GetLocalListVersionRequest |-> Lit(None),
         GetLocalListVersionConfirmation |-> New({"listVersion"}, [listVersion |-> Opt("gte")])],
     tags |-> None]

SendLocalList ==
    [request |-> "SendLocalListRequest",
     response |-> "SendLocalListConfirmation",
     types |->
        [AuthorizationData |-> Lit([idTag |-> Req("max"), idTagInfo |-> OptOf({}, "IdTagInfo")]),
         SendLocalListRequest |-> New({"listVersion", "updateType"},
             [listVersion |-> Opt("gte"),
              localAuthorizationList |-> OptOf({}, "AuthorizationData"),
              updateType |-> Req("updateType16")]),
         SendLocalListConfirmation |-> New({"status"}, [status |-> Req("updateStatus")])],
     tags |-> All({"updateStatus", "updateType16"})]

\* Package logging.
GetLog ==
    [request |-> "GetLogRequest",
     response |-> "GetLogResponse",
     types |->
        [LogParameters |-> Lit([remoteLocation |-> ReqOf({"max", "url"}, ""),
             oldestTimestamp |-> Free, latestTimestamp |-> Free]),
         GetLogRequest |-> New({"logType", "requestId", "log"},
             [logType |-> Req("logType16"), requestId |-> Opt("gte"), retries |-> Opt("gte"),
              retryInterval |-> Opt("gte"), log |-> One("LogParameters")]),
         GetLogResponse |-> New({"status"},
             [status |-> Req("logStatus16"), filename |-> Opt("max")])],
     tags |-> All({"logType16", "logStatus16"})]

LogStatusNotification ==
    [request |-> "LogStatusNotificationRequest",
     response |-> "LogStatusNotificationResponse",
     types |->
        [LogStatusNotificationRequest |-> New({"status", "requestId"},
             [status |-> Req("uploadLogStatus16"), requestId |-> Opt("gte")]),
         LogStatusNotificationResponse |-> Lit(None)],
     tags |-> All({"uploadLogStatus16"})]

\* Package remotetrigger.
TriggerMessage ==
    [request |-> "TriggerMessageRequest",
     response |-> "TriggerMessageConfirmation",
     types |->
        [TriggerMessageRequest |-> New({"requestedMessage"},
             [requestedMessage |-> Req("messageTrigger16"), connectorId |-> Opt("gte")]),
         TriggerMessageConfirmation |-> New({"status"},
             [status |-> Req("triggerMessageStatus16")])],
     tags |-> All({"triggerMessageStatus16", "messageTrigger16"})]

\* Package reservation.
CancelReservation ==
    [request |-> "CancelReservationRequest",
     response |-> "CancelReservationConfirmation",
     types |->
        [CancelReservationRequest |-> New({"reservationId"}, [reservationId |-> Free]),
         CancelReservationConfirmation |-> New({"status"},
             [status |-> Req("cancelReservationStatus16")])],
     tags |-> All({"cancelReservationStatus16"})]

ReserveNow ==
    [request |-> "ReserveNowRequest",
     response |-> "ReserveNowConfirmation",
     types |->
        [ReserveNowRequest |-> New({"connectorId", "expiryDate", "idTag", "reservationId"},
             [connectorId |-> Opt("gte"), expiryDate |-> Need, idTag |-> Req("max"),
              parentIdTag |-> Opt("max"), reservationId |-> Free]),
         ReserveNowConfirmation |-> New({"status"}, [status |-> Req("reservationStatus")])],
     tags |-> All({"reservationStatus"})]

\* Package securefirmware.
SignedUpdateFirmware ==
    [request |-> "SignedUpdateFirmwareRequest",
     response |-> "SignedUpdateFirmwareResponse",
     types |->
        [SignedUpdateFirmwareRequest |-> New({"requestId", "firmware"},
             [retries |-> Opt("gte"), retryInterval |-> Opt("gte"), requestId |-> Opt("gte"),
              firmware |-> One("Firmware")]),
         Firmware |-> Lit([location |-> ReqOf({"max", "uri"}, ""), retrieveDateTime |-> Need,
             installDateTime |-> Free, signingCertificate |-> Opt("max"),
             signature |-> Opt("max")]),
         SignedUpdateFirmwareResponse |-> New({"status"},
             [status |-> Req("signedUpdateFirmwareStatus")])],
     tags |-> All({"signedUpdateFirmwareStatus"})]

SignedFirmwareStatusNotification ==
    [request |-> "SignedFirmwareStatusNotificationRequest",
     response |-> "SignedFirmwareStatusNotificationResponse",
     types |->
        [SignedFirmwareStatusNotificationRequest |-> New({"status"},
             [status |-> Req("signedFirmwareStatus"), requestId |-> Opt("gte")]),
         SignedFirmwareStatusNotificationResponse |-> Lit(None)],
     tags |-> [signedFirmwareStatus |-> {"CertificateVerified", "InvalidCertificate",
                   "RevokedCertificate"}]]

\* Package security.
CertificateSigned ==
    [request |-> "CertificateSignedRequest",
     response |-> "CertificateSignedResponse",
     types |->
        [CertificateSignedRequest |-> New({"certificateChain"},
             [certificateChain |-> Req("max")]),
         CertificateSignedResponse |-> New({"status"},
             [status |-> Req("certificateSignedStatus16")])],
     tags |-> All({"certificateSignedStatus16"})]

SecurityEventNotification ==
    [request |-> "SecurityEventNotificationRequest",
     response |-> "SecurityEventNotificationResponse",
     types |->
        [SecurityEventNotificationRequest |-> New({"type", "timestamp"},
             [type |-> Req("max"), timestamp |-> Need, techInfo |-> Opt("max")]),
         SecurityEventNotificationResponse |-> Lit(None)],
     tags |-> None]

SignCertificate ==
    [request |-> "SignCertificateRequest",
     response |-> "SignCertificateResponse",
     types |->
        [SignCertificateRequest |-> New({"csr"},
             [csr |-> Req("max"), certificateType |-> Opt("certificateSigningUse16")]),
         SignCertificateResponse |-> New({"status"}, [status |-> Req("genericStatus16")])],
     tags |-> None]

\* Package smartcharging.
ClearChargingProfile ==
    [request |-> "ClearChargingProfileRequest",
     response |-> "ClearChargingProfileConfirmation",
     types |->
        [ClearChargingProfileRequest |-> New({},
             [id |-> Free, connectorId |-> Opt("gte"),
              chargingProfilePurpose |-> Opt("chargingProfilePurpose16"),
              stackLevel |-> Opt("gte")]),
         ClearChargingProfileConfirmation |-> New({"status"},
             [status |-> Req("clearChargingProfileStatus16")])],
     tags |-> All({"clearChargingProfileStatus16"})]

GetCompositeSchedule ==
    [request |-> "GetCompositeScheduleRequest",
     response |-> "GetCompositeScheduleConfirmation",
     types |->
        [GetCompositeScheduleRequest |-> New({"connectorId", "duration"},
             [connectorId |-> Opt("gte"), duration |-> Opt("gte"),
              chargingRateUnit |-> Opt("chargingRateUnit16")]),
         GetCompositeScheduleConfirmation |-> New({"status"},
             [status |-> Req("compositeScheduleStatus"), connectorId |-> Opt("gte"),
              scheduleStart |-> Free, chargingSchedule |-> OptOf({}, "ChargingSchedule")])],
     tags |-> All({"compositeScheduleStatus"})]

SetChargingProfile ==
    [request |-> "SetChargingProfileRequest",
     response |-> "SetChargingProfileConfirmation",
     types |->
        [SetChargingProfileRequest |-> New({"connectorId", "csChargingProfiles"},
             [connectorId |-> Opt("gte"), csChargingProfiles |-> ReqOf({}, "ChargingProfile")]),
         SetChargingProfileConfirmation |-> New({"status"},
             [status |-> Req("chargingProfileStatus16")])],
     tags |-> All({"chargingProfileStatus16"})]

\* The profile of each package: its features and, per side, the operations of the
\* handler interface.
CertificatesProfile ==
    [name |-> "Certificates",
     features |-> [InstallCertificate |-> InstallCertificate,
                   DeleteCertificate |-> DeleteCertificate,
                   GetInstalledCertificateIds |-> GetInstalledCertificateIds],
     system |-> {},
     station |-> {"DeleteCertificate", "GetInstalledCertificateIds", "InstallCertificate"}]

CoreProfile ==
    [name |-> "Core",
     features |-> [BootNotification |-> BootNotification, Authorize |-> Authorize,
                   ChangeAvailability |-> ChangeAvailability,
                   ChangeConfiguration |-> ChangeConfiguration, ClearCache |-> ClearCache,
                   DataTransfer |-> DataTransfer, GetConfiguration |-> GetConfiguration,
                   Heartbeat |-> Heartbeat, MeterValues |-> MeterValues,
                   RemoteStartTransaction |-> RemoteStartTransaction,
                   RemoteStopTransaction |-> RemoteStopTransaction,
                   StartTransaction |-> StartTransaction, StopTransaction |-> StopTransaction,
                   StatusNotification |-> StatusNotification, Reset |-> Reset,
                   UnlockConnector |-> UnlockConnector],
     system |-> {"Authorize", "BootNotification", "DataTransfer", "Heartbeat", "MeterValues",
                "StatusNotification", "StartTransaction", "StopTransaction"},
     station |-> {"ChangeAvailability", "ChangeConfiguration", "ClearCache", "DataTransfer",
                 "GetConfiguration", "RemoteStartTransaction", "RemoteStopTransaction", "Reset",
                 "UnlockConnector"}]

ExtendedTriggerMessageProfile ==
    [name |-> "ExtendedTriggerMessage",
     features |-> [ExtendedTriggerMessage |-> ExtendedTriggerMessage],
     system |-> {},
     station |-> {"ExtendedTriggerMessage"}]

FirmwareProfile ==
    [name |-> "FirmwareManagement",
     features |-> [GetDiagnostics |-> GetDiagnostics,
                   DiagnosticsStatusNotification |-> DiagnosticsStatusNotification,
                   FirmwareStatusNotification |-> FirmwareStatusNotification,
                   UpdateFirmware |-> UpdateFirmware],
     system |-> {"DiagnosticsStatusNotification", "FirmwareStatusNotification"},
     station |-> {"GetDiagnostics", "UpdateFirmware"}]

LocalAuthProfile ==
    [name |-> "LocalAuthListManagement",
     features |-> [GetLocalListVersion |-> GetLocalListVersion,
                   SendLocalList |-> SendLocalList],
     system |-> {},
     station |-> {"GetLocalListVersion", "SendLocalList"}]

LoggingProfile ==
    [name |-> "Log",
     features |-> [GetLog |-> GetLog, LogStatusNotification |-> LogStatusNotification],
     system |-> {"LogStatusNotification"},
     station |-> {"GetLog"}]

RemoteTriggerProfile ==
    [name |-> "RemoteTrigger",
     features |-> [TriggerMessage |-> TriggerMessage],
     system |-> {},
     station |-> {"TriggerMessage"}]

ReservationProfile ==
    [name |-> "Reservation",
     features |-> [ReserveNow |-> ReserveNow, CancelReservation |-> CancelReservation],
     system |-> {},
     station |-> {"ReserveNow", "CancelReservation"}]

SecureFirmwareProfile ==
    [name |-> "SecureFirmwareUpdate",
     features |-> [SignedFirmwareStatusNotification |-> SignedFirmwareStatusNotification,
                   SignedUpdateFirmware |-> SignedUpdateFirmware],
     system |-> {"SignedFirmwareStatusNotification"},
     station |-> {"SignedUpdateFirmware"}]

SecurityProfile ==
    [name |-> "Security",
     features |-> [CertificateSigned |-> CertificateSigned,
                   SecurityEventNotification |-> SecurityEventNotification,
                   SignCertificate |-> SignCertificate],
     system |-> {"SecurityEventNotification", "SignCertificate"},
     station |-> {"CertificateSigned"}]

SmartChargingProfile ==
    [name |-> "SmartCharging",
     features |-> [SetChargingProfile |-> SetChargingProfile,
                   ClearChargingProfile |-> ClearChargingProfile,
                   GetCompositeSchedule |-> GetCompositeSchedule],
     system |-> {},
     station |-> {"SetChargingProfile", "ClearChargingProfile", "GetCompositeSchedule"}]

\* Every file that declares types or registers validation functions.
TypesPackage == <<IdTagTypes, ChargingTypes, MeterTypes, SecurityTypes>>

Files == TypesPackage \o <<DeleteCertificate, GetInstalledCertificateIds, InstallCertificate,
            Authorize, BootNotification, ChangeAvailability, ChangeConfiguration, ClearCache,
            DataTransfer, GetConfiguration, Heartbeat, MeterValues, RemoteStartTransaction,
            RemoteStopTransaction, Reset, StartTransaction, StatusNotification, StopTransaction,
            UnlockConnector, ExtendedTriggerMessage, DiagnosticsStatusNotification,
            FirmwareStatusNotification, GetDiagnostics, UpdateFirmware, GetLocalListVersion,
            SendLocalList, GetLog, LogStatusNotification, TriggerMessage, CancelReservation,
            ReserveNow, SignedUpdateFirmware, SignedFirmwareStatusNotification,
            CertificateSigned, SecurityEventNotification, SignCertificate, ClearChargingProfile,
            GetCompositeSchedule, SetChargingProfile>>
==============================================================================
