---------------------------- MODULE OcppFeatures201 ----------------------------
(***************************************************************************)
(* The messages of OCPP 2.0.1 as the packages under ocpp-go/ocpp2.0.1       *)
(* declare them: one definition per feature file, with the rules of its     *)
(* structs' validate tags, what its constructors fill in and the validation *)
(* functions it registers; then the profile of each package.                *)
(***************************************************************************)
EXTENDS OcppMessages

\* Shared types (types package).
AuthorizationTypes ==
    [types |->
        [AdditionalInfo |-> Lit([additionalIdToken |-> Req("max"), type |-> Req("max")]),
         IdToken |-> Lit([idToken |-> IdTokenValue, type |-> Req("idTokenType"),
             additionalInfo |-> OptOf({}, "AdditionalInfo")])],
     tags |-> All({"idTokenType", "authorizationStatus201"})]

CertificateTypes ==
    [types |->
        [OCSPRequestDataType |-> Lit([hashAlgorithm |-> Req("hashAlgorithm"),
             issuerNameHash |-> Req("max"), issuerKeyHash |-> Req("max"),
             serialNumber |-> Req("max"), responderURL |-> Opt("max")]),
         CertificateHashData |-> Lit([hashAlgorithm |-> Req("hashAlgorithm"),
             issuerNameHash |-> Req("max"), issuerKeyHash |-> Req("max"),
             serialNumber |-> Req("max")]),
         CertificateHashDataChain |-> Lit([certificateType |-> Req("certificateUse"),
             certificateHashData |-> One("CertificateHashData"),
             childCertificateHashData |-> OptOf({}, "CertificateHashData")])],
     tags |-> All({"genericDeviceModelStatus", "genericStatus", "hashAlgorithm",
                   "certificateSigningUse", "certificateUse", "15118EVCertificate"})]

TokenInfoTypes ==
    [types |->
        [MessageContent |-> Lit([format |-> Req("messageFormat"), language |-> Opt("max"),
             content |-> Req("max")]),
         GroupIdToken |-> Lit([idToken |-> IdTokenValue, type |-> Req("idTokenType")]),
         IdTokenInfo |-> New({"status"},
             [status |-> Req("authorizationStatus201"), cacheExpiryDateTime |-> Free,
              chargingPriority |-> Opt("min"), language1 |-> Opt("max"),
              language2 |-> Opt("max"), groupIdToken |-> OptOf({}, "GroupIdToken"),
              personalMessage |-> OptOf({}, "MessageContent")])],
     tags |-> All({"messageFormat"})]

DeviceTypes ==
    [types |->
        [StatusInfo |-> New({"reasonCode", "additionalInfo"},
             [reasonCode |-> Req("max"), additionalInfo |-> Opt("max")]),
         EVSE |-> Lit([id |-> Opt("gte"), connectorId |-> Opt("gte")]),
         Component |-> Lit([name |-> Req("max"), instance |-> Opt("max"),
             evse |-> OptOf({}, "EVSE")]),
         Variable |-> Lit([name |-> Req("max"), instance |-> Opt("max")]),
         ComponentVariable |-> Lit([component |-> One("Component"),
             variable |-> One("Variable")])],
     tags |-> All({"attribute"})]

TariffTypes ==
    [types |->
        [RelativeTimeInterval |-> Lit([start |-> Free, duration |-> Opt("gte")]),
         CostType |-> Lit([costKind |-> Req("costKind"), amount |-> Opt("gte"),
             amountMultiplier |-> Opt("min")]),
         ConsumptionCost |-> New({"startValue", "cost"},
             [startValue |-> Free, cost |-> ReqOf({"max"}, "CostType")]),
         SalesTariffEntry |-> Lit([ePriceLevel |-> Opt("gte"),
             relativeTimeInterval |-> One("RelativeTimeInterval"),
             consumptionCost |-> OptOf({"max"}, "ConsumptionCost")]),
         SalesTariff |-> New({"id", "salesTariffEntry"},
             [id |-> Free, salesTariffDescription |-> Opt("max"), numEPriceLevels |-> Free,
              salesTariffEntry |-> ReqOf({"min"}, "SalesTariffEntry")])],
     tags |-> All({"costKind"})]

ChargingTypes ==
    [types |->
        [ChargingSchedulePeriod |-> New({"startPeriod", "limit"},
             [startPeriod |-> Opt("gte"), limit |-> Opt("gte"), numberPhases |-> Opt("gte")]),
         ChargingSchedule |-> New({"id", "chargingRateUnit", "chargingSchedulePeriod"},
             [id |-> Opt("gte"), startSchedule |-> Free, duration |-> Opt("gte"),
              chargingRateUnit |-> Req("chargingRateUnit201"), minChargingRate |-> Opt("gte"),
              chargingSchedulePeriod |-> Req("min"), salesTariff |-> OptOf({}, "SalesTariff")]),
         ChargingProfile |-> New({"id", "stackLevel", "chargingProfilePurpose", "chargingProfileKind", "chargingSchedule"},
             [id |-> Opt("gte"), stackLevel |-> Opt("gte"),
              chargingProfilePurpose |-> Req("chargingProfilePurpose201"),
              chargingProfileKind |-> Req("chargingProfileKind201"),
              recurrencyKind |-> Opt("recurrencyKind201"), validFrom |-> Free, validTo |-> Free,
              transactionId |-> Opt("max"),
              chargingSchedule |-> ReqOf({"min"}, "ChargingSchedule")])],
     tags |-> All({"chargingProfilePurpose201", "chargingProfileKind201", "recurrencyKind201",
                   "chargingRateUnit201", "chargingLimitSource", "remoteStartStopStatus201"})]

MeterTypes ==
    [types |->
        [UnitOfMeasure |-> Lit([unit |-> Opt("max"), multiplier |-> Opt("gte")]),
         SignedMeterValue |-> Lit([signedMeterData |-> Req("max"), signingMethod |-> Req("max"),
             encodingMethod |-> Req("max"), publicKey |-> Req("max")]),
         SampledValue |-> Lit([value |-> Free, context |-> Opt("readingContext201"),
             measurand |-> Opt("measurand201"), phase |-> Opt("phase201"),
             location |-> Opt("location201"),
             signedMeterValue |-> OptOf({}, "SignedMeterValue"),
             unitOfMeasure |-> OptOf({}, "UnitOfMeasure")]),
         MeterValue |-> Lit([timestamp |-> Free,
             sampledValue |-> ReqOf({"min"}, "SampledValue")])],
     tags |-> All({"readingContext201", "measurand201", "phase201", "location201",
                   "signatureMethod", "encodingMethod"})]

DiagnosticsTypes ==
    [types |-> None,
     tags |-> All({"monitorType"})]

DisplayTypes ==
    [types |->
        [MessageInfo |-> Lit([id |-> Opt("gte"), priority |-> Req("messagePriority"),
             state |-> Opt("messageState"), startDateTime |-> Free, endDateTime |-> Free,
             transactionId |-> Opt("max"), message |-> One("MessageContent"),
             display |-> OptOf({}, "Component")])],
     tags |-> All({"messagePriority", "messageState", "messageStatus"})]

\* Package authorization.
Authorize ==
    [request |-> "AuthorizeRequest",
     response |-> "AuthorizeResponse",
     types |->
        [AuthorizeRequest |-> New({"idToken"},
             [certificate |-> Opt("max"), idToken |-> One("IdToken"),
              iso15118CertificateHashData |-> OptOf({"max"}, "OCSPRequestDataType")]),
         AuthorizeResponse |-> New({"idTokenInfo"},
             [certificateStatus |-> Opt("authorizeCertificateStatus"),
              idTokenInfo |-> One("IdTokenInfo")])],
     tags |-> All({"authorizeCertificateStatus"})]

ClearCache ==
    [request |-> "ClearCacheRequest",
     response |-> "ClearCacheResponse",
     types |->
        [ClearCacheRequest |-> Lit(None),
         ClearCacheResponse |-> New({"status"},
             [status |-> Req("cacheStatus201"), statusInfo |-> OptOf({}, "StatusInfo")])],
     tags |-> All({"cacheStatus201"})]

\* Package availability.
ChangeAvailability ==
    [request |-> "ChangeAvailabilityRequest",
     response |-> "ChangeAvailabilityResponse",
     types |->
        [ChangeAvailabilityRequest |-> New({"operationalStatus"},
             [operationalStatus |-> Req("operationalStatus"), evse |-> OptOf({}, "EVSE")]),
         ChangeAvailabilityResponse |-> New({"status"},
             [status |-> Req("changeAvailabilityStatus"),
              statusInfo |-> OptOf({}, "StatusInfo")])],
     tags |-> All({"operationalStatus", "changeAvailabilityStatus"})]

Heartbeat ==
    [request |-> "HeartbeatRequest",
     response |-> "HeartbeatResponse",
     types |->
        [HeartbeatRequest |-> Lit(None),
         HeartbeatResponse |-> New({"currentTime"}, [currentTime |-> Need])],
     tags |-> None]

StatusNotification ==
    [request |-> "StatusNotificationRequest",
     response |-> "StatusNotificationResponse",
     types |->
        [StatusNotificationRequest |-> New({"timestamp", "connectorStatus", "evseId", "connectorId"},
             [timestamp |-> Need, connectorStatus |-> Req("connectorStatus"),
              evseId |-> Opt("gte"), connectorId |-> Opt("gte")]),
         StatusNotificationResponse |-> Lit(None)],
     tags |-> All({"connectorStatus"})]

\* Package data.
DataTransfer ==
    [request |-> "DataTransferRequest",
     response |-> "DataTransferResponse",
     types |->
        [DataTransferRequest |-> New({"vendorId"},
             [messageId |-> Opt("max"), data |-> Free, vendorId |-> Req("max")]),
         DataTransferResponse |-> New({"status"},
             [status |-> Req("dataTransferStatus201"), data |-> Free,
              statusInfo |-> OptOf({}, "StatusInfo")])],
     tags |-> All({"dataTransferStatus201"})]

\* Package diagnostics.
ClearVariableMonitoring ==
    [request |-> "ClearVariableMonitoringRequest",
     response |-> "ClearVariableMonitoringResponse",
     types |->
        [ClearMonitoringResult |-> Lit([id |-> Req("gte"),
             status |-> Req("clearMonitoringStatus")]),
         ClearVariableMonitoringRequest |-> New({"id"}, [id |-> ReqOf({"min", "gte"}, "")]),
         ClearVariableMonitoringResponse |-> New({"clearMonitoringResult"},
             [clearMonitoringResult |-> ReqOf({"min"}, "ClearMonitoringResult")])],
     tags |-> All({"clearMonitoringStatus"})]

CustomerInformation ==
    [request |-> "CustomerInformationRequest",
     response |-> "CustomerInformationResponse",
     types |->
        [CustomerInformationRequest |-> New({"requestId", "report", "clear"},
             [requestId |-> Opt("gte"), report |-> Free, clear |-> Free,
              customerIdentifier |-> Opt("max"), idToken |-> OptOf({}, "IdToken"),
              customerCertificate |-> OptOf({}, "CertificateHashData")]),
         CustomerInformationResponse |-> New({"status"},
             [status |-> Req("customerInformationStatus"),
              statusInfo |-> OptOf({}, "StatusInfo")])],
     tags |-> All({"customerInformationStatus"})]

GetLog ==
    [request |-> "GetLogRequest",
     response |-> "GetLogResponse",
     types |->
        [LogParameters |-> Lit([remoteLocation |-> ReqOf({"max", "url"}, ""),
             oldestTimestamp |-> Free, latestTimestamp |-> Free]),
         GetLogRequest |-> New({"logType", "requestId", "log"},
             [logType |-> Req("logType"), requestId |-> Opt("gte"), retries |-> Opt("gte"),
              retryInterval |-> Opt("gte"), log |-> One("LogParameters")]),
         GetLogResponse |-> New({"status"},
             [status |-> Req("logStatus"), filename |-> Opt("max")])],
     tags |-> All({"logType", "logStatus"})]

GetMonitoringReport ==
    [request |-> "GetMonitoringReportRequest",
     response |-> "GetMonitoringReportResponse",
     types |->
        [GetMonitoringReportRequest |-> New({},
             [requestId |-> Opt("gte"),
              monitoringCriteria |-> OptOf({"max", "monitoringCriteria"}, ""),
              componentVariable |-> OptOf({}, "ComponentVariable")]),
         GetMonitoringReportResponse |-> New({"status"},
             [status |-> Req("genericDeviceModelStatus")])],
     tags |-> All({"monitoringCriteria"})]

LogStatusNotification ==
    [request |-> "LogStatusNotificationRequest",
     response |-> "LogStatusNotificationResponse",
     types |->
        [LogStatusNotificationRequest |-> New({"status", "requestId"},
             [status |-> Req("uploadLogStatus"), requestId |-> Opt("gte")]),
         LogStatusNotificationResponse |-> Lit(None)],
     tags |-> All({"uploadLogStatus"})]

NotifyCustomerInformation ==
    [request |-> "NotifyCustomerInformationRequest",
     response |-> "NotifyCustomerInformationResponse",
     types |->
        [NotifyCustomerInformationRequest |-> New({"data", "seqNo", "generatedAt", "requestId"},
             [data |-> Req("max"), tbc |-> Free, seqNo |-> Opt("gte"), generatedAt |-> Free,
              requestId |-> Opt("gte")]),
         NotifyCustomerInformationResponse |-> Lit(None)],
     tags |-> None]

NotifyEvent ==
    [request |-> "NotifyEventRequest",
     response |-> "NotifyEventResponse",
     types |->
        [EventData |-> Lit([eventId |-> Opt("gte"), timestamp |-> Need,
             trigger |-> Req("eventTrigger"), cause |-> Free, actualValue |-> Req("max"),
             techCode |-> Opt("max"), techInfo |-> Opt("max"), cleared |-> Free,
             transactionId |-> Opt("max"), variableMonitoringId |-> Free,
             eventNotificationType |-> Req("eventNotification"), component |-> One("Component"),
             variable |-> One("Variable")]),
         NotifyEventRequest |-> New({"generatedAt", "seqNo", "eventData"},
             [generatedAt |-> Need, seqNo |-> Opt("gte"), tbc |-> Free,
              eventData |-> ReqOf({"min"}, "EventData")]),
         NotifyEventResponse |-> Lit(None)],
     tags |-> All({"eventTrigger", "eventNotification"})]

NotifyMonitoringReport ==
    [request |-> "NotifyMonitoringReportRequest",
     response |-> "NotifyMonitoringReportResponse",
     types |->
        [VariableMonitoring |-> New({"id", "transaction", "value", "type", "severity"},
             [id |-> Opt("gte"), transaction |-> Free, value |-> Free,
              type |-> Req("monitorType"), severity |-> Opt("min")]),
         MonitoringData |-> Lit([component |-> One("Component"), variable |-> One("Variable"),
             variableMonitoring |-> ReqOf({"min"}, "VariableMonitoring")]),
         NotifyMonitoringReportRequest |-> New({"requestId", "seqNo", "generatedAt", "monitor"},
             [requestId |-> Opt("gte"), tbc |-> Free, seqNo |-> Opt("gte"),
              generatedAt |-> Need, monitor |-> OptOf({}, "MonitoringData")]),
         NotifyMonitoringReportResponse |-> Lit(None)],
     tags |-> None]

SetMonitoringBase ==
    [request |-> "SetMonitoringBaseRequest",
     response |-> "SetMonitoringBaseResponse",
     types |->
        [SetMonitoringBaseRequest |-> New({"monitoringBase"},
             [monitoringBase |-> Req("monitoringBase")]),
         SetMonitoringBaseResponse |-> New({"status"},
             [status |-> Req("genericDeviceModelStatus"),
              statusInfo |-> OptOf({}, "StatusInfo")])],
     tags |-> All({"monitoringBase"})]

SetMonitoringLevel ==
    [request |-> "SetMonitoringLevelRequest",
     response |-> "SetMonitoringLevelResponse",
     types |->
        [SetMonitoringLevelRequest |-> New({"severity"}, [severity |-> Opt("min")]),
         SetMonitoringLevelResponse |-> New({"status"},
             [status |-> Req("genericDeviceModelStatus"),
              statusInfo |-> OptOf({}, "StatusInfo")])],
     tags |-> All({"monitoringBase"})]

SetVariableMonitoring ==
    [request |-> "SetVariableMonitoringRequest",
     response |-> "SetVariableMonitoringResponse",
     types |->
        [SetMonitoringData |-> Lit([id |-> Free, transaction |-> Free, value |-> Free,
             type |-> Req("monitorType"), severity |-> Opt("min"),
             component |-> One("Component"), variable |-> One("Variable")]),
         SetMonitoringResult |-> Lit([id |-> Free, status |-> Req("setMonitoringStatus"),
             type |-> Req("monitorType"), severity |-> Opt("min"),
             component |-> One("Component"), variable |-> One("Variable"),
             statusInfo |-> OptOf({}, "StatusInfo")]),
         SetVariableMonitoringRequest |-> New({"setMonitoringData"},
             [setMonitoringData |-> ReqOf({"min"}, "SetMonitoringData")]),
         SetVariableMonitoringResponse |-> New({"setMonitoringResult"},
             [setMonitoringResult |-> ReqOf({"min"}, "SetMonitoringResult")])],
     tags |-> All({"setMonitoringStatus"})]

\* Package display.
ClearDisplayMessage ==
    [request |-> "ClearDisplayRequest",
     response |-> "ClearDisplayResponse",
     types |->
        [ClearDisplayRequest |-> New({"id"}, [id |-> Free]),
         ClearDisplayResponse |-> New({"status"},
             [status |-> Req("clearMessageStatus"), statusInfo |-> OptOf({}, "StatusInfo")])],
     tags |-> All({"clearMessageStatus"})]

GetDisplayMessages ==
    [request |-> "GetDisplayMessagesRequest",
     response |-> "GetDisplayMessagesResponse",
     types |->
        [GetDisplayMessagesRequest |-> New({"requestId"},
             [requestId |-> Opt("gte"), priority |-> Opt("messagePriority"),
              state |-> Opt("messageState"), id |-> Opt("gte")]),
         GetDisplayMessagesResponse |-> New({"status"}, [status |-> Req("messageStatus")])],
     tags |-> None]

NotifyDisplayMessages ==
    [request |-> "NotifyDisplayMessagesRequest",
     response |-> "NotifyDisplayMessagesResponse",
     types |->
        [NotifyDisplayMessagesRequest |-> New({"requestId"},
             [requestId |-> Opt("gte"), tbc |-> Free, messageInfo |-> OptOf({}, "MessageInfo")]),
         NotifyDisplayMessagesResponse |-> Lit(None)],
     tags |-> None]

SetDisplayMessage ==
    [request |-> "SetDisplayMessageRequest",
     response |-> "SetDisplayMessageResponse",
     types |->
        [SetDisplayMessageRequest |-> New({"message"}, [message |-> One("MessageInfo")]),
         SetDisplayMessageResponse |-> New({"status"},
             [status |-> Req("displayMessageStatus"), statusInfo |-> OptOf({}, "StatusInfo")])],
     tags |-> All({"displayMessageStatus"})]

\* Package firmware.
FirmwareStatusNotification ==
    [request |-> "FirmwareStatusNotificationRequest",
     response |-> "FirmwareStatusNotificationResponse",
     types |->
        [FirmwareStatusNotificationRequest |-> New({"status"},
             [status |-> Req("firmwareStatus201"), requestId |-> Opt("gte")]),
         FirmwareStatusNotificationResponse |-> Lit(None)],
     tags |-> All({"firmwareStatus201"})]

PublishFirmware ==
    [request |-> "PublishFirmwareRequest",
     response |-> "PublishFirmwareResponse",
     types |->
        [PublishFirmwareRequest |-> New({"location", "checksum", "requestId"},
             [location |-> Req("max"), retries |-> Opt("gte"), checksum |-> Req("max"),
              requestId |-> Opt("gte"), retryInterval |-> Opt("gte")]),
         PublishFirmwareResponse |-> New({"status"},
             [status |-> Req("genericStatus"), statusInfo |-> OptOf({}, "StatusInfo")])],
     tags |-> None]

PublishFirmwareStatusNotification ==
    [request |-> "PublishFirmwareStatusNotificationRequest",
     response |-> "PublishFirmwareStatusNotificationResponse",
     types |->
        [PublishFirmwareStatusNotificationRequest |-> New({"status"},
             [status |-> Req("publishFirmwareStatus"), location |-> Opt("max"),
              requestId |-> Opt("gte")]),
         PublishFirmwareStatusNotificationResponse |-> Lit(None)],
     tags |-> All({"publishFirmwareStatus"})]

UnpublishFirmware ==
    [request |-> "UnpublishFirmwareRequest",
     response |-> "UnpublishFirmwareResponse",
     types |->
        [UnpublishFirmwareRequest |-> New({"checksum"}, [checksum |-> Req("max")]),
         UnpublishFirmwareResponse |-> New({"status"},
             [status |-> Req("unpublishFirmwareStatus")])],
     tags |-> All({"unpublishFirmwareStatus"})]

UpdateFirmware ==
    [request |-> "UpdateFirmwareRequest",
     response |-> "UpdateFirmwareResponse",
     types |->
        [Firmware |-> Lit([location |-> ReqOf({"max", "uri"}, ""), retrieveDateTime |-> Need,
             installDateTime |-> Free, signingCertificate |-> Opt("max"),
             signature |-> Opt("max")]),
         UpdateFirmwareRequest |-> New({"requestId", "firmware"},
             [retries |-> Opt("gte"), retryInterval |-> Opt("gte"), requestId |-> Opt("gte"),
              firmware |-> One("Firmware")]),
         UpdateFirmwareResponse |-> New({"status"},
             [status |-> Req("updateFirmwareStatus"), statusInfo |-> OptOf({}, "StatusInfo")])],
     tags |-> All({"updateFirmwareStatus"})]

\* Package iso15118.
DeleteCertificate ==
    [request |-> "DeleteCertificateRequest",
     response |-> "DeleteCertificateResponse",
     types |->
        [DeleteCertificateRequest |-> New({"certificateHashData"},
             [certificateHashData |-> One("CertificateHashData")]),
         DeleteCertificateResponse |-> New({"status"},
             [status |-> Req("deleteCertificateStatus"),
              statusInfo |-> OptOf({}, "StatusInfo")])],
     tags |-> All({"deleteCertificateStatus"})]

Get15118EVCertificate ==
    [request |-> "Get15118EVCertificateRequest",
     response |-> "Get15118EVCertificateResponse",
     types |->
        [Get15118EVCertificateRequest |-> New({"iso15118SchemaVersion", "action", "exiRequest"},
             [iso15118SchemaVersion |-> Req("max"), action |-> Req("certificateAction"),
              exiRequest |-> Req("max")]),
         Get15118EVCertificateResponse |-> New({"status", "exiResponse"},
             [status |-> Req("15118EVCertificate"), exiResponse |-> Req("max"),
              statusInfo |-> OptOf({}, "StatusInfo")])],
     tags |-> All({"certificateAction"})]

GetCertificateStatus ==
    [request |-> "GetCertificateStatusRequest",
     response |-> "GetCertificateStatusResponse",
     types |->
        [GetCertificateStatusRequest |-> New({"ocspRequestData"},
             [ocspRequestData |-> One("OCSPRequestDataType")]),
         GetCertificateStatusResponse |-> New({"status"},
             [status |-> Req("genericStatus"), ocspResult |-> Opt("max"),
              statusInfo |-> OptOf({}, "StatusInfo")])],
     tags |-> None]

GetInstalledCertificateIds ==
    [request |-> "GetInstalledCertificateIdsRequest",
     response |-> "GetInstalledCertificateIdsResponse",
     types |->
        [GetInstalledCertificateIdsRequest |-> New({},
             [certificateType |-> Opt("certificateUse")]),
         GetInstalledCertificateIdsResponse |-> New({"status"},
             [status |-> Req("getInstalledCertificateStatus"),
              statusInfo |-> OptOf({}, "StatusInfo"),
              certificateHashDataChain |-> OptOf({}, "CertificateHashDataChain")])],
     tags |-> All({"getInstalledCertificateStatus"})]

InstallCertificate ==
    [request |-> "InstallCertificateRequest",
     response |-> "InstallCertificateResponse",
     types |->
        [InstallCertificateRequest |-> New({"certificateType", "certificate"},
             [certificateType |-> Req("certificateUse"), certificate |-> Req("max")]),
         InstallCertificateResponse |-> New({"status"},
             [status |-> Req("installCertificateStatus"),
              statusInfo |-> OptOf({}, "StatusInfo")])],
     tags |-> All({"installCertificateStatus"})]

\* Package localauth.
GetLocalListVersion ==
    [request |-> "GetLocalListVersionRequest",
     response |-> "GetLocalListVersionResponse",
     types |->
        [GetLocalListVersionRequest |-> Lit(None),
         GetLocalListVersionResponse |-> New({"versionNumber"}, [versionNumber |-> Opt("gte")])],
     tags |-> None]

SendLocalList ==
    [request |-> "SendLocalListRequest",
     response |-> "SendLocalListResponse",
     types |->
        [AuthorizationData |-> Lit([idTokenInfo |-> OptOf({}, "IdTokenInfo"),
             idToken |-> One("IdToken")]),
         SendLocalListRequest |-> New({"versionNumber", "updateType"},
             [versionNumber |-> Opt("gte"), updateType |-> Req("updateType201"),
              localAuthorizationList |-> OptOf({}, "AuthorizationData")]),
         SendLocalListResponse |-> New({"status"},
             [status |-> Req("sendLocalListStatus"), statusInfo |-> OptOf({}, "StatusInfo")])],
     tags |-> All({"updateType201", "sendLocalListStatus"})]

\* Package meter.
MeterValues ==
    [request |-> "MeterValuesRequest",
     response |-> "MeterValuesResponse",
     types |->
        [MeterValuesRequest |-> New({"evseId", "meterValue"},
             [evseId |-> Opt("gte"), meterValue |-> ReqOf({"min"}, "MeterValue")]),
         MeterValuesResponse |-> Lit(None)],
     tags |-> None]

\* Package provisioning.
BootNotification ==
    [request |-> "BootNotificationRequest",
     response |-> "BootNotificationResponse",
     types |->
        [ModemType |-> Lit([iccid |-> Opt("max"), imsi |-> Opt("max")]),
         ChargingStationType |-> Lit([serialNumber |-> Opt("max"), model |-> Req("max"),
             vendorName |-> Req("max"), firmwareVersion |-> Opt("max"),
             modem |-> OptOf({}, "ModemType")]),
         BootNotificationRequest |-> New({"reason", "chargingStation"},
             [reason |-> Req("bootReason"), chargingStation |-> One("ChargingStationType")]),
         BootNotificationResponse |-> New({"currentTime", "interval", "status"},
             [currentTime |-> Need, interval |-> Opt("gte"),
              status |-> Req("registrationStatus201"), statusInfo |-> OptOf({}, "StatusInfo")])],
     tags |-> All({"registrationStatus201", "bootReason"})]

GetBaseReport ==
    [request |-> "GetBaseReportRequest",
     response |-> "GetBaseReportResponse",
     types |->
        [GetBaseReportRequest |-> New({"requestId", "reportBase"},
             [requestId |-> Free, reportBase |-> Req("reportBaseType")]),
         GetBaseReportResponse |-> New({"status"},
             [status |-> Req("genericDeviceModelStatus"),
              statusInfo |-> OptOf({}, "StatusInfo")])],
     tags |-> All({"reportBaseType"})]

GetReport ==
    [request |-> "GetReportRequest",
     response |-> "GetReportResponse",
     types |->
        [GetReportRequest |-> New({},
             [requestId |-> Opt("gte"),
              componentCriteria |-> OptOf({"max", "componentCriterion"}, ""),
              componentVariable |-> OptOf({}, "ComponentVariable")]),
         GetReportResponse |-> New({"status"}, [status |-> Req("genericDeviceModelStatus")])],
     tags |-> All({"componentCriterion"})]

GetVariables ==
    [request |-> "GetVariablesRequest",
     response |-> "GetVariablesResponse",
     types |->
        [GetVariableData |-> Lit([attributeType |-> Opt("attribute"),
             component |-> One("Component"), variable |-> One("Variable")]),
         GetVariableResult |-> Lit([attributeStatus |-> Req("getVariableStatus"),
             attributeType |-> Opt("attribute"), attributeValue |-> Opt("max"),
             component |-> One("Component"), variable |-> One("Variable")]),
         GetVariablesRequest |-> New({"getVariableData"},
             [getVariableData |-> ReqOf({"min"}, "GetVariableData")]),
         GetVariablesResponse |-> New({"getVariableResult"},
             [getVariableResult |-> ReqOf({"min"}, "GetVariableResult")])],
     tags |-> All({"getVariableStatus"})]

NotifyReport ==
    [request |-> "NotifyReportRequest",
     response |-> "NotifyReportResponse",
     types |->
        [VariableCharacteristics |-> New({"dataType", "supportsMonitoring"},
             [unit |-> Opt("max"), dataType |-> Req("dataTypeEnum"), minLimit |-> Free,
              maxLimit |-> Free, valuesList |-> Opt("max"), supportsMonitoring |-> Free]),
         VariableAttribute |-> New({"type", "mutability"},
             [type |-> Opt("attribute"), value |-> Opt("max"), mutability |-> Opt("mutability"),
              persistent |-> Free, constant |-> Free]),
         ReportData |-> Lit([component |-> One("Component"), variable |-> One("Variable"),
             variableAttribute |-> ReqOf({"min"}, "VariableAttribute"),
             variableCharacteristics |-> OptOf({}, "VariableCharacteristics")]),
         NotifyReportRequest |-> New({"requestId", "generatedAt", "seqNo"},
             [requestId |-> Opt("gte"), generatedAt |-> Need, tbc |-> Free,
              seqNo |-> Opt("gte"), reportData |-> OptOf({}, "ReportData")]),
         NotifyReportResponse |-> Lit(None)],
     tags |-> All({"mutability", "dataTypeEnum"})]

Reset ==
    [request |-> "ResetRequest",
     response |-> "ResetResponse",
     types |->
        [ResetRequest |-> New({"type"}, [type |-> Zero("resetType201"), evseId |-> Opt("gte")]),
         ResetResponse |-> New({"status"},
             [status |-> Req("resetStatus201"), statusInfo |-> OptOf({}, "StatusInfo")])],
     tags |-> All({"resetType201", "resetStatus201"})]

SetNetworkProfile ==
    [request |-> "SetNetworkProfileRequest",
     response |-> "SetNetworkProfileResponse",
     types |->
        [VPN |-> Lit([server |-> Req("max"), user |-> Req("max"), group |-> Opt("max"),
             password |-> Req("max"), key |-> Req("max"), type |-> Req("vpnType")]),
         APN |-> Lit([apn |-> Req("max"), apnUserName |-> Opt("max"),
             apnPassword |-> Opt("max"), simPin |-> Opt("gte"), preferredNetwork |-> Opt("max"),
             useOnlyPreferredNetwork |-> Free, apnAuthentication |-> Req("apnAuthentication")]),
         NetworkConnectionProfile |-> Lit([ocppVersion |-> Req("ocppVersion"),
             ocppTransport |-> Req("ocppTransport"), ocppCsmsUrl |-> Req("max"),
             messageTimeout |-> Opt("gte"), securityProfile |-> Free,
             ocppInterface |-> Req("ocppInterface"), vpn |-> OptOf({}, "VPN"),
             apn |-> OptOf({}, "APN")]),
         SetNetworkProfileRequest |-> New({"configurationSlot", "connectionData"},
             [configurationSlot |-> Opt("gte"),
              connectionData |-> One("NetworkConnectionProfile")]),
         SetNetworkProfileResponse |-> New({"status"},
             [status |-> Req("setNetworkProfileStatus"),
              statusInfo |-> OptOf({}, "StatusInfo")])],
     tags |-> All({"ocppVersion", "ocppTransport", "ocppInterface", "vpnType",
                   "apnAuthentication", "setNetworkProfileStatus"})]

SetVariables ==
    [request |-> "SetVariablesRequest",
     response |-> "SetVariablesResponse",
     types |->
        [SetVariableData |-> Lit([attributeType |-> Opt("attribute"),
             attributeValue |-> Req("max"), component |-> One("Component"),
             variable |-> One("Variable")]),
         SetVariableResult |-> Lit([attributeType |-> Opt("attribute"),
             attributeStatus |-> Req("setVariableStatus"), component |-> One("Component"),
             variable |-> One("Variable"), statusInfo |-> OptOf({}, "StatusInfo")]),
         SetVariablesRequest |-> New({"setVariableData"},
             [setVariableData |-> ReqOf({"min"}, "SetVariableData")]),
         SetVariablesResponse |-> New({"setVariableResult"},
             [setVariableResult |-> ReqOf({"min"}, "SetVariableResult")])],
     tags |-> All({"setVariableStatus"})]

\* Package remotecontrol.
RequestStartTransaction ==
    [request |-> "RequestStartTransactionRequest",
     response |-> "RequestStartTransactionResponse",
     types |->
        [RequestStartTransactionRequest |-> New({"remoteStartId", "idToken"},
             [evseId |-> Opt("gt"), remoteStartId |-> Opt("gte"), idToken |-> One("IdToken"),
              chargingProfile |-> OptOf({}, "ChargingProfile"),
              groupIdToken |-> OptOf({}, "IdToken")]),
         RequestStartTransactionResponse |-> New({"status"},
             [status |-> Req("requestStartStopStatus"), transactionId |-> Opt("max"),
              statusInfo |-> OptOf({}, "StatusInfo")])],
     tags |-> All({"requestStartStopStatus"})]

RequestStopTransaction ==
    [request |-> "RequestStopTransactionRequest",
     response |-> "RequestStopTransactionResponse",
     types |->
        [RequestStopTransactionRequest |-> New({"transactionId"},
             [transactionId |-> Req("max")]),
         RequestStopTransactionResponse |-> New({"status"},
             [status |-> Req("requestStartStopStatus"), statusInfo |-> OptOf({}, "StatusInfo")])],
     tags |-> None]

TriggerMessage ==
    [request |-> "TriggerMessageRequest",
     response |-> "TriggerMessageResponse",
     types |->
        [TriggerMessageRequest |-> New({"requestedMessage"},
             [requestedMessage |-> Req("messageTrigger201"), evse |-> OptOf({}, "EVSE")]),
         TriggerMessageResponse |-> New({"status"},
             [status |-> Req("triggerMessageStatus201"),
              statusInfo |-> OptOf({}, "StatusInfo")])],
     tags |-> All({"messageTrigger201", "triggerMessageStatus201"})]

UnlockConnector ==
    [request |-> "UnlockConnectorRequest",
     response |-> "UnlockConnectorResponse",
     types |->
        [UnlockConnectorRequest |-> New({"evseId", "connectorId"},
             [evseId |-> Opt("gte"), connectorId |-> Opt("gte")]),
         UnlockConnectorResponse |-> New({"status"},
             [status |-> Req("unlockStatus201"), statusInfo |-> OptOf({}, "StatusInfo")])],
     tags |-> All({"unlockStatus201"})]

\* Package reservation.
CancelReservation ==
    [request |-> "CancelReservationRequest",
     response |-> "CancelReservationResponse",
     types |->
        [CancelReservationRequest |-> New({"reservationId"}, [reservationId |-> Opt("gte")]),
         CancelReservationResponse |-> New({"status"},
             [status |-> Req("cancelReservationStatus201"),
              statusInfo |-> OptOf({}, "StatusInfo")])],
     tags |-> All({"cancelReservationStatus201"})]

ReservationStatusUpdate ==
    [request |-> "ReservationStatusUpdateRequest",
     response |-> "ReservationStatusUpdateResponse",
     types |->
        [ReservationStatusUpdateRequest |-> New({"reservationId", "reservationUpdateStatus"},
             [reservationId |-> Opt("gte"),
              reservationUpdateStatus |-> Req("reservationUpdateStatus")]),
         ReservationStatusUpdateResponse |-> Lit(None)],
     tags |-> All({"reservationUpdateStatus"})]

ReserveNow ==
    [request |-> "ReserveNowRequest",
     response |-> "ReserveNowResponse",
     types |->
        [ReserveNowRequest |-> New({"id", "expiryDateTime", "idToken"},
             [id |-> Opt("gte"), expiryDateTime |-> Need,
              connectorType |-> Opt("connectorType"), evseId |-> Opt("gte"),
              idToken |-> One("IdToken"), groupIdToken |-> OptOf({}, "IdToken")]),
         ReserveNowResponse |-> New({"status"},
             [status |-> Req("reserveNowStatus"), statusInfo |-> OptOf({}, "StatusInfo")])],
     tags |-> All({"reserveNowStatus", "connectorType"})]

\* Package security.
CertificateSigned ==
    [request |-> "CertificateSignedRequest",
     response |-> "CertificateSignedResponse",
     types |->
        [CertificateSignedRequest |-> New({"certificateChain"},
             [certificateChain |-> Req("max"),
              certificateType |-> Opt("certificateSigningUse")]),
         CertificateSignedResponse |-> New({"status"},
             [status |-> Req("certificateSignedStatus"),
              statusInfo |-> OptOf({}, "StatusInfo")])],
     tags |-> All({"certificateSignedStatus"})]

SecurityEventNotification ==
    [request |-> "SecurityEventNotificationRequest",
     response |-> "SecurityEventNotificationResponse",
     types |->
        [SecurityEventNotificationRequest |-> New({"type", "timestamp"},
             [type |-> Req("max"), timestamp |-> Need, techInfo |-> Opt("max")]),
         SecurityEventNotificationResponse |-> Lit(None)],
     tags |-> None]

SignCertificate ==
    [request |-> "SignCertificateRequest",
     response |-> "SignCertificateResponse",
     types |->
        [SignCertificateRequest |-> New({"csr"},
             [csr |-> Req("max"), certificateType |-> Opt("certificateSigningUse")]),
         SignCertificateResponse |-> New({"status"},
             [status |-> Req("genericStatus"), statusInfo |-> OptOf({}, "StatusInfo")])],
     tags |-> None]

\* Package smartcharging.
ClearChargingProfile ==
    [request |-> "ClearChargingProfileRequest",
     response |-> "ClearChargingProfileResponse",
     types |->
        [ClearChargingProfileType |-> Lit([evseId |-> Opt("gte"),
             chargingProfilePurpose |-> Opt("chargingProfilePurpose201"),
             stackLevel |-> Opt("gt")]),
         ClearChargingProfileRequest |-> New({},
             [chargingProfileId |-> Free,
              chargingProfileCriteria |-> OptOf({}, "ClearChargingProfileType")]),
         ClearChargingProfileResponse |-> New({"status"},
             [status |-> Req("clearChargingProfileStatus201"),
              statusInfo |-> OptOf({}, "StatusInfo")])],
     tags |-> All({"clearChargingProfileStatus201"})]

ClearedChargingLimit ==
    [request |-> "ClearedChargingLimitRequest",
     response |-> "ClearedChargingLimitResponse",
     types |->
        [ClearedChargingLimitRequest |-> New({"chargingLimitSource"},
             [chargingLimitSource |-> Req("chargingLimitSource"), evseId |-> Opt("gte")]),
         ClearedChargingLimitResponse |-> Lit(None)],
     tags |-> None]

GetChargingProfiles ==
    [request |-> "GetChargingProfilesRequest",
     response |-> "GetChargingProfilesResponse",
     types |->
        [ChargingProfileCriterion |-> Lit([
             chargingProfilePurpose |-> Opt("chargingProfilePurpose201"),
             stackLevel |-> Opt("gte"), chargingProfileId |-> Free,
             chargingLimitSource |-> OptOf({"max", "chargingLimitSource"}, "")]),
         GetChargingProfilesRequest |-> New({"chargingProfile"},
             [requestId |-> Free, evseId |-> Opt("gte"),
              chargingProfile |-> One("ChargingProfileCriterion")]),
         GetChargingProfilesResponse |-> New({"status"},
             [status |-> Req("getChargingProfileStatus"),
              statusInfo |-> OptOf({}, "StatusInfo")])],
     tags |-> All({"getChargingProfileStatus"})]

GetCompositeSchedule ==
    [request |-> "GetCompositeScheduleRequest",
     response |-> "GetCompositeScheduleResponse",
     types |->
        [CompositeSchedule |-> Lit([startDateTime |-> Free,
             chargingSchedule |-> OptOf({}, "ChargingSchedule")]),
         GetCompositeScheduleRequest |-> New({"duration", "evseId"},
             [duration |-> Opt("gte"), chargingRateUnit |-> Opt("chargingRateUnit201"),
              evseId |-> Opt("gte")]),
         GetCompositeScheduleResponse |-> New({"status"},
             [status |-> Req("getCompositeScheduleStatus"),
              statusInfo |-> OptOf({}, "StatusInfo"),
              schedule |-> OptOf({}, "CompositeSchedule")])],
     tags |-> All({"getCompositeScheduleStatus"})]

NotifyChargingLimit ==
    [request |-> "NotifyChargingLimitRequest",
     response |-> "NotifyChargingLimitResponse",
     types |->
        [ChargingLimit |-> Lit([chargingLimitSource |-> Req("chargingLimitSource"),
             isGridCritical |-> Free]),
         NotifyChargingLimitRequest |-> New({"chargingLimit"},
             [evseId |-> Opt("gte"), chargingLimit |-> One("ChargingLimit"),
              chargingSchedule |-> OptOf({}, "ChargingSchedule")]),
         NotifyChargingLimitResponse |-> Lit(None)],
     tags |-> None]

NotifyEVChargingNeeds ==
    [request |-> "NotifyEVChargingNeedsRequest",
     response |-> "NotifyEVChargingNeedsResponse",
     types |->
        [ACChargingParameters |-> Lit([energyAmount |-> Opt("gte"), evMinCurrent |-> Opt("gte"),
             evMaxCurrent |-> Opt("gte"), evMaxVoltage |-> Opt("gte")]),
         DCChargingParameters |-> Lit([evMaxCurrent |-> Opt("gte"), evMaxVoltage |-> Opt("gte"),
             energyAmount |-> Opt("gte"), evMaxPower |-> Opt("gte"),
             stateOfCharge |-> Opt("gte"), evEnergyCapacity |-> Opt("gte"),
             fullSoC |-> Opt("gte"), bulkSoC |-> Opt("gte")]),
         ChargingNeeds |-> Lit([requestedEnergyTransfer |-> Req("energyTransferMode"),
             departureTime |-> Free, acChargingParameters |-> OptOf({}, "ACChargingParameters"),
             dcChargingParameters |-> OptOf({}, "DCChargingParameters")]),
         NotifyEVChargingNeedsRequest |-> New({"evseId", "chargingNeeds"},
             [maxScheduleTuples |-> Opt("gte"), evseId |-> Zero("gt"),
              chargingNeeds |-> One("ChargingNeeds")]),
         NotifyEVChargingNeedsResponse |-> New({"status"},
             [status |-> Req("evChargingNeedsStatus"), statusInfo |-> OptOf({}, "StatusInfo")])],
     tags |-> All({"energyTransferMode", "evChargingNeedsStatus"})]

NotifyEVChargingSchedule ==
    [request |-> "NotifyEVChargingScheduleRequest",
     response |-> "NotifyEVChargingScheduleResponse",
     types |->
        [NotifyEVChargingScheduleRequest |-> New({"timeBase", "evseId", "chargingSchedule"},
             [timeBase |-> Need, evseId |-> Zero("gt"),
              chargingSchedule |-> One("ChargingSchedule")]),
         NotifyEVChargingScheduleResponse |-> New({"status"},
             [status |-> Req("genericStatus"), statusInfo |-> OptOf({}, "StatusInfo")])],
     tags |-> None]

ReportChargingProfiles ==
    [request |-> "ReportChargingProfilesRequest",
     response |-> "ReportChargingProfilesResponse",
     types |->
        [ReportChargingProfilesRequest |-> New({"requestId", "chargingLimitSource", "evseId", "chargingProfile"},
             [requestId |-> Opt("gte"), chargingLimitSource |-> Req("chargingLimitSource"),
              tbc |-> Free, evseId |-> Opt("gte"),
              chargingProfile |-> ReqOf({"min"}, "ChargingProfile")]),
         ReportChargingProfilesResponse |-> Lit(None)],
     tags |-> None]

SetChargingProfile ==
    [request |-> "SetChargingProfileRequest",
     response |-> "SetChargingProfileResponse",
     types |->
        [SetChargingProfileRequest |-> New({"evseId", "chargingProfile"},
             [evseId |-> Opt("gte"), chargingProfile |-> ReqOf({}, "ChargingProfile")]),
         SetChargingProfileResponse |-> New({"status"},
             [status |-> Req("chargingProfileStatus201"),
              statusInfo |-> OptOf({}, "StatusInfo")])],
     tags |-> All({"chargingProfileStatus201"})]

\* Package tariffcost.
CostUpdated ==
    [request |-> "CostUpdatedRequest",
     response |-> "CostUpdatedResponse",
     types |->
        [CostUpdatedRequest |-> New({"totalCost", "transactionId"},
             [totalCost |-> Need, transactionId |-> Req("max")]),
         CostUpdatedResponse |-> Lit(None)],
     tags |-> None]

\* Package transactions.
GetTransactionStatus ==
    [request |-> "GetTransactionStatusRequest",
     response |-> "GetTransactionStatusResponse",
     types |->
        [GetTransactionStatusRequest |-> New({}, [transactionId |-> Opt("max")]),
         GetTransactionStatusResponse |-> New({"messagesInQueue"},
             [ongoingIndicator |-> Free, messagesInQueue |-> Free])],
     tags |-> None]

TransactionEvent ==
    [request |-> "TransactionEventRequest",
     response |-> "TransactionEventResponse",
     types |->
        [Transaction |-> Lit([transactionId |-> Req("max"),
             chargingState |-> Opt("chargingState"), timeSpentCharging |-> Free,
             stoppedReason |-> Opt("stoppedReason"), remoteStartId |-> Free]),
         TransactionEventRequest |-> New({"eventType", "timestamp", "triggerReason", "seqNo", "transactionInfo"},
             [eventType |-> Req("transactionEvent"), timestamp |-> Need,
              triggerReason |-> Req("triggerReason"), seqNo |-> Opt("gte"), offline |-> Free,
              numberOfPhasesUsed |-> Opt("gte"), cableMaxCurrent |-> Free,
              reservationId |-> Free, transactionInfo |-> One("Transaction"),
              idToken |-> OptOf({}, "IdToken"), evse |-> OptOf({}, "EVSE"),
              meterValue |-> OptOf({}, "MeterValue")]),
         TransactionEventResponse |-> New({},
             [totalCost |-> Opt("gte"), chargingPriority |-> Opt("min"),
              idTokenInfo |-> OptOf({}, "IdTokenInfo"),
              updatedPersonalMessage |-> OptOf({}, "MessageContent")])],
     tags |-> All({"transactionEvent", "triggerReason", "chargingState", "stoppedReason"})]

\* The profile of each package: its features and, per side, the operations of the
\* handler interface.
AuthorizationProfile ==
    [name |-> "Authorization",
     features |-> [Authorize |-> Authorize, ClearCache |-> ClearCache],
     system |-> {"Authorize"},
     station |-> {"ClearCache"}]

AvailabilityProfile ==
    [name |-> "Availability",
     features |-> [ChangeAvailability |-> ChangeAvailability, Heartbeat |-> Heartbeat,
                   StatusNotification |-> StatusNotification],
     system |-> {"Heartbeat", "StatusNotification"},
     station |-> {"ChangeAvailability"}]

DataProfile ==
    [name |-> "Data",
     features |-> [DataTransfer |-> DataTransfer],
     system |-> {"DataTransfer"},
     station |-> {"DataTransfer"}]

DiagnosticsProfile ==
    [name |-> "Diagnostics",
     features |-> [ClearVariableMonitoring |-> ClearVariableMonitoring,
                   CustomerInformation |-> CustomerInformation, GetLog |-> GetLog,
                   GetMonitoringReport |-> GetMonitoringReport,
                   LogStatusNotification |-> LogStatusNotification,
                   NotifyCustomerInformation |-> NotifyCustomerInformation,
                   NotifyEvent |-> NotifyEvent,
                   NotifyMonitoringReport |-> NotifyMonitoringReport,
                   SetMonitoringBase |-> SetMonitoringBase,
                   SetMonitoringLevel |-> SetMonitoringLevel,
                   SetVariableMonitoring |-> SetVariableMonitoring],
     system |-> {"LogStatusNotification", "NotifyCustomerInformation", "NotifyEvent",
                "NotifyMonitoringReport"},
     station |-> {"ClearVariableMonitoring", "CustomerInformation", "GetLog",
                 "GetMonitoringReport", "SetMonitoringBase", "SetMonitoringLevel",
                 "SetVariableMonitoring"}]

DisplayProfile ==
    [name |-> "Display",
     features |-> [ClearDisplayMessage |-> ClearDisplayMessage,
                   GetDisplayMessages |-> GetDisplayMessages,
                   NotifyDisplayMessages |-> NotifyDisplayMessages,
                   SetDisplayMessage |-> SetDisplayMessage],
     system |-> {"NotifyDisplayMessages"},
     station |-> {"ClearDisplayMessage", "GetDisplayMessages", "SetDisplayMessage"}]

FirmwareProfile ==
    [name |-> "Firmware",
     features |-> [FirmwareStatusNotification |-> FirmwareStatusNotification,
                   PublishFirmware |-> PublishFirmware,
                   PublishFirmwareStatusNotification |-> PublishFirmwareStatusNotification,
                   UnpublishFirmware |-> UnpublishFirmware, UpdateFirmware |-> UpdateFirmware],
     system |-> {"FirmwareStatusNotification", "PublishFirmwareStatusNotification"},
     station |-> {"PublishFirmware", "UnpublishFirmware", "UpdateFirmware"}]

Iso15118Profile ==
    [name |-> "ISO15118",
     features |-> [DeleteCertificate |-> DeleteCertificate,
                   Get15118EVCertificate |-> Get15118EVCertificate,
                   GetCertificateStatus |-> GetCertificateStatus,
                   GetInstalledCertificateIds |-> GetInstalledCertificateIds,
                   InstallCertificate |-> InstallCertificate],
     system |-> {"Get15118EVCertificate", "GetCertificateStatus"},
     station |-> {"DeleteCertificate", "GetInstalledCertificateIds", "InstallCertificate"}]

LocalAuthProfile ==
    [name |-> "LocalAuthList",
     features |-> [GetLocalListVersion |-> GetLocalListVersion,
                   SendLocalList |-> SendLocalList],
     system |-> {},
     station |-> {"GetLocalListVersion", "SendLocalList"}]

MeterProfile ==
    [name |-> "Meter",
     features |-> [MeterValues |-> MeterValues],
     system |-> {"MeterValues"},
     station |-> {}]

ProvisioningProfile ==
    [name |-> "Provisioning",
     features |-> [BootNotification |-> BootNotification, GetBaseReport |-> GetBaseReport,
                   GetReport |-> GetReport, GetVariables |-> GetVariables,
                   NotifyReport |-> NotifyReport, Reset |-> Reset,
                   SetNetworkProfile |-> SetNetworkProfile, SetVariables |-> SetVariables],
     system |-> {"BootNotification", "NotifyReport"},
     station |-> {"GetBaseReport", "GetReport", "GetVariables", "Reset", "SetNetworkProfile",
                 "SetVariables"}]

RemoteControlProfile ==
    [name |-> "RemoteControl",
     features |-> [RequestStartTransaction |-> RequestStartTransaction,
                   RequestStopTransaction |-> RequestStopTransaction,
                   TriggerMessage |-> TriggerMessage, UnlockConnector |-> UnlockConnector],
     system |-> {},
     station |-> {"RequestStartTransaction", "RequestStopTransaction", "TriggerMessage",
                 "UnlockConnector"}]

ReservationProfile ==
    [name |-> "Reservation",
     features |-> [CancelReservation |-> CancelReservation,
                   ReservationStatusUpdate |-> ReservationStatusUpdate,
                   ReserveNow |-> ReserveNow],
     system |-> {"ReservationStatusUpdate"},
     station |-> {"CancelReservation", "ReserveNow"}]

SecurityProfile ==
    [name |-> "Security",
     features |-> [CertificateSigned |-> CertificateSigned,
                   SecurityEventNotification |-> SecurityEventNotification,
                   SignCertificate |-> SignCertificate],
     system |-> {"SecurityEventNotification", "SignCertificate"},
     station |-> {"CertificateSigned"}]

SmartChargingProfile ==
    [name |-> "SmartCharging",
     features |-> [ClearChargingProfile |-> ClearChargingProfile,
                   ClearedChargingLimit |-> ClearedChargingLimit,
                   GetChargingProfiles |-> GetChargingProfiles,
                   GetCompositeSchedule |-> GetCompositeSchedule,
                   NotifyChargingLimit |-> NotifyChargingLimit,
                   NotifyEVChargingNeeds |-> NotifyEVChargingNeeds,
                   NotifyEVChargingSchedule |-> NotifyEVChargingSchedule,
                   ReportChargingProfiles |-> ReportChargingProfiles,
                   SetChargingProfile |-> SetChargingProfile],
     system |-> {"ClearedChargingLimit", "NotifyChargingLimit", "NotifyEVChargingNeeds",
                "NotifyEVChargingSchedule", "ReportChargingProfiles"},
     station |-> {"ClearChargingProfile", "GetChargingProfiles", "GetCompositeSchedule",
                 "SetChargingProfile"}]

TariffCostProfile ==
    [name |-> "TariffCost",
     features |-> [CostUpdated |-> CostUpdated],
     system |-> {},
     station |-> {"CostUpdated"}]

TransactionsProfile ==
    [name |-> "Transactions",
     features |-> [GetTransactionStatus |-> GetTransactionStatus,
                   TransactionEvent |-> TransactionEvent],
     system |-> {"TransactionEvent"},
     station |-> {"GetTransactionStatus"}]

\* Every file that declares types or registers validation functions.
TypesPackage == <<AuthorizationTypes, CertificateTypes, TokenInfoTypes, DeviceTypes,
                   TariffTypes, ChargingTypes, MeterTypes>>

Files == TypesPackage \o <<DiagnosticsTypes, DisplayTypes, Authorize, ClearCache,
            ChangeAvailability, Heartbeat, StatusNotification, DataTransfer,
            ClearVariableMonitoring, CustomerInformation, GetLog, GetMonitoringReport,
            LogStatusNotification, NotifyCustomerInformation, NotifyEvent,
            NotifyMonitoringReport, SetMonitoringBase, SetMonitoringLevel,
            SetVariableMonitoring, ClearDisplayMessage, GetDisplayMessages,
            NotifyDisplayMessages, SetDisplayMessage, FirmwareStatusNotification,
            PublishFirmware, PublishFirmwareStatusNotification, UnpublishFirmware,
            UpdateFirmware, DeleteCertificate, Get15118EVCertificate, GetCertificateStatus,
            GetInstalledCertificateIds, InstallCertificate, GetLocalListVersion, SendLocalList,
            MeterValues, BootNotification, GetBaseReport, GetReport, GetVariables, NotifyReport,
            Reset, SetNetworkProfile, SetVariables, RequestStartTransaction,
            RequestStopTransaction, TriggerMessage, UnlockConnector, CancelReservation,
            ReservationStatusUpdate, ReserveNow, CertificateSigned, SecurityEventNotification,
            SignCertificate, ClearChargingProfile, ClearedChargingLimit, GetChargingProfiles,
            GetCompositeSchedule, NotifyChargingLimit, NotifyEVChargingNeeds,
            NotifyEVChargingSchedule, ReportChargingProfiles, SetChargingProfile, CostUpdated,
            GetTransactionStatus, TransactionEvent>>
==============================================================================
