------------------------------ MODULE OcppApi201 ------------------------------
(***************************************************************************)
(* The two sides of OCPP 2.0.1 as the packages above ocppj build them: the  *)
(* features a side offers as methods, the ones SendRequestAsync lets        *)
(* through, and the switch by which handleIncomingRequest picks a handler.  *)
(***************************************************************************)
EXTENDS OcppFeatures201

CSMSCalls1 ==
    [CancelReservation |-> "CancelReservationResponse",
     CertificateSigned |-> "CertificateSignedResponse",
     ChangeAvailability |-> "ChangeAvailabilityResponse", ClearCache |-> "ClearCacheResponse",
     ClearChargingProfile |-> "ClearChargingProfileResponse",
     ClearDisplayMessage |-> "ClearDisplayResponse",
     ClearVariableMonitoring |-> "ClearVariableMonitoringResponse",
     CostUpdated |-> "CostUpdatedResponse",
     CustomerInformation |-> "CustomerInformationResponse",
     DataTransfer |-> "DataTransferResponse"]

CSMSCalls2 ==
    [DeleteCertificate |-> "DeleteCertificateResponse",
     GetBaseReport |-> "GetBaseReportResponse",
     GetChargingProfiles |-> "GetChargingProfilesResponse",
     GetCompositeSchedule |-> "GetCompositeScheduleResponse",
     GetDisplayMessages |-> "GetDisplayMessagesResponse",
     GetInstalledCertificateIds |-> "GetInstalledCertificateIdsResponse",
     GetLocalListVersion |-> "GetLocalListVersionResponse", GetLog |-> "GetLogResponse",
     GetMonitoringReport |-> "GetMonitoringReportResponse", GetReport |-> "GetReportResponse"]

CSMSCalls3 ==
    [GetTransactionStatus |-> "GetTransactionStatusResponse",
     GetVariables |-> "GetVariablesResponse",
     InstallCertificate |-> "InstallCertificateResponse",
     PublishFirmware |-> "PublishFirmwareResponse",
     RequestStartTransaction |-> "RequestStartTransactionResponse",
     RequestStopTransaction |-> "RequestStopTransactionResponse",
     ReserveNow |-> "ReserveNowResponse", Reset |-> "ResetResponse",
     SendLocalList |-> "SendLocalListResponse",
     SetChargingProfile |-> "SetChargingProfileResponse"]

CSMSCalls4 ==
    [SetDisplayMessage |-> "SetDisplayMessageResponse",
     SetMonitoringBase |-> "SetMonitoringBaseResponse",
     SetMonitoringLevel |-> "SetMonitoringLevelResponse",
     SetNetworkProfile |-> "SetNetworkProfileResponse",
     SetVariableMonitoring |-> "SetVariableMonitoringResponse",
     SetVariables |-> "SetVariablesResponse", TriggerMessage |-> "TriggerMessageResponse",
     UnlockConnector |-> "UnlockConnectorResponse",
     UnpublishFirmware |-> "UnpublishFirmwareResponse",
     UpdateFirmware |-> "UpdateFirmwareResponse"]

CSMSCalls == CSMSCalls1 @@ CSMSCalls2 @@ CSMSCalls3 @@ CSMSCalls4

CSMSAsync ==
    {"CancelReservation", "CertificateSigned", "ChangeAvailability", "ClearCache",
     "ClearChargingProfile", "ClearDisplayMessage", "ClearVariableMonitoring", "CostUpdated",
     "CustomerInformation", "DataTransfer", "DeleteCertificate", "GetBaseReport",
     "GetChargingProfiles", "GetCompositeSchedule", "GetDisplayMessages",
     "GetInstalledCertificateIds", "GetLocalListVersion", "GetLog", "GetMonitoringReport",
     "GetReport", "GetTransactionStatus", "GetVariables", "InstallCertificate",
     "PublishFirmware", "RequestStartTransaction", "RequestStopTransaction", "ReserveNow",
     "Reset", "SendLocalList", "SetChargingProfile", "SetDisplayMessage", "SetMonitoringBase",
     "SetMonitoringLevel", "SetNetworkProfile", "SetVariableMonitoring", "SetVariables",
     "TriggerMessage", "UnlockConnector", "UnpublishFirmware", "UpdateFirmware"}

CSMSNilChecked ==
    {"Authorization", "Availability", "Data", "Diagnostics", "Display", "Firmware", "ISO15118",
     "LocalAuthList", "Meter", "Provisioning", "RemoteControl", "Reservation", "Security",
     "SmartCharging", "TariffCost", "Transactions"}

CSMSRoute ==
    [BootNotification |-> "Provisioning", Authorize |-> "Authorization",
     ClearedChargingLimit |-> "SmartCharging", DataTransfer |-> "Data",
     FirmwareStatusNotification |-> "Firmware", Get15118EVCertificate |-> "ISO15118",
     GetCertificateStatus |-> "ISO15118", Heartbeat |-> "Availability",
     LogStatusNotification |-> "Diagnostics", MeterValues |-> "Meter",
     NotifyChargingLimit |-> "SmartCharging", NotifyCustomerInformation |-> "Diagnostics",
     NotifyDisplayMessages |-> "Display", NotifyEVChargingNeeds |-> "SmartCharging",
     NotifyEVChargingSchedule |-> "SmartCharging", NotifyEvent |-> "Diagnostics",
     NotifyMonitoringReport |-> "Diagnostics", NotifyReport |-> "Provisioning",
     PublishFirmwareStatusNotification |-> "Firmware",
     ReportChargingProfiles |-> "SmartCharging", ReservationStatusUpdate |-> "Reservation",
     SecurityEventNotification |-> "Security", SignCertificate |-> "Security",
     StatusNotification |-> "Availability", TransactionEvent |-> "Transactions"]

ChargingStationCalls1 ==
    [BootNotification |-> "BootNotificationResponse", Authorize |-> "AuthorizeResponse",
     ClearedChargingLimit |-> "ClearedChargingLimitResponse",
     DataTransfer |-> "DataTransferResponse",
     FirmwareStatusNotification |-> "FirmwareStatusNotificationResponse",
     Get15118EVCertificate |-> "Get15118EVCertificateResponse",
     GetCertificateStatus |-> "GetCertificateStatusResponse", Heartbeat |-> "HeartbeatResponse",
     LogStatusNotification |-> "LogStatusNotificationResponse",
     MeterValues |-> "MeterValuesResponse",
     NotifyChargingLimit |-> "NotifyChargingLimitResponse"]

ChargingStationCalls2 ==
    [NotifyCustomerInformation |-> "NotifyCustomerInformationResponse",
     NotifyDisplayMessages |-> "NotifyDisplayMessagesResponse",
     NotifyEVChargingNeeds |-> "NotifyEVChargingNeedsResponse",
     NotifyEVChargingSchedule |-> "NotifyEVChargingScheduleResponse",
     NotifyEvent |-> "NotifyEventResponse",
     NotifyMonitoringReport |-> "NotifyMonitoringReportResponse",
     NotifyReport |-> "NotifyReportResponse",
     PublishFirmwareStatusNotification |-> "PublishFirmwareStatusNotificationResponse",
     ReportChargingProfiles |-> "ReportChargingProfilesResponse",
     ReservationStatusUpdate |-> "ReservationStatusUpdateResponse",
     SecurityEventNotification |-> "SecurityEventNotificationResponse"]

ChargingStationCalls3 ==
    [SignCertificate |-> "SignCertificateResponse",
     StatusNotification |-> "StatusNotificationResponse",
     TransactionEvent |-> "TransactionEventResponse"]

ChargingStationCalls == ChargingStationCalls1 @@ ChargingStationCalls2 @@ ChargingStationCalls3

ChargingStationAsync ==
    {"Authorize", "BootNotification", "ClearedChargingLimit", "DataTransfer",
     "FirmwareStatusNotification", "Get15118EVCertificate", "GetCertificateStatus", "Heartbeat",
     "LogStatusNotification", "MeterValues", "NotifyChargingLimit", "NotifyCustomerInformation",
     "NotifyDisplayMessages", "NotifyEVChargingNeeds", "NotifyEVChargingSchedule",
     "NotifyEvent", "NotifyMonitoringReport", "NotifyReport",
     "PublishFirmwareStatusNotification", "ReportChargingProfiles", "ReservationStatusUpdate",
     "SecurityEventNotification", "SignCertificate", "StatusNotification", "TransactionEvent"}

ChargingStationNilChecked ==
    {"Authorization", "Availability", "Data", "Diagnostics", "Display", "Firmware", "ISO15118",
     "LocalAuthList", "Meter", "Provisioning", "RemoteControl", "Reservation", "Security",
     "SmartCharging", "TariffCost", "Transactions"}

ChargingStationRoute ==
    [CancelReservation |-> "Reservation", CertificateSigned |-> "Security",
     ChangeAvailability |-> "Availability", ClearCache |-> "Authorization",
     ClearChargingProfile |-> "SmartCharging", ClearDisplayMessage |-> "Display",
     ClearVariableMonitoring |-> "Diagnostics", CostUpdated |-> "TariffCost",
     CustomerInformation |-> "Diagnostics", DataTransfer |-> "Data",
     DeleteCertificate |-> "ISO15118", GetBaseReport |-> "Provisioning",
     GetChargingProfiles |-> "SmartCharging", GetCompositeSchedule |-> "SmartCharging",
     GetDisplayMessages |-> "Display", GetInstalledCertificateIds |-> "ISO15118",
     GetLocalListVersion |-> "LocalAuthList", GetLog |-> "Diagnostics",
     GetMonitoringReport |-> "Diagnostics", GetReport |-> "Provisioning",
     GetTransactionStatus |-> "Transactions", GetVariables |-> "Provisioning",
     InstallCertificate |-> "ISO15118", PublishFirmware |-> "Firmware",
     RequestStartTransaction |-> "RemoteControl", RequestStopTransaction |-> "RemoteControl",
     ReserveNow |-> "Reservation", Reset |-> "Provisioning", SendLocalList |-> "LocalAuthList",
     SetChargingProfile |-> "SmartCharging", SetDisplayMessage |-> "Display",
     SetMonitoringBase |-> "Diagnostics", SetMonitoringLevel |-> "Diagnostics",
     SetNetworkProfile |-> "Provisioning", SetVariableMonitoring |-> "Diagnostics",
     SetVariables |-> "Provisioning", TriggerMessage |-> "RemoteControl",
     UnlockConnector |-> "RemoteControl", UnpublishFirmware |-> "Firmware",
     UpdateFirmware |-> "Firmware"]

CSMSProfiles ==
    <<AuthorizationProfile, AvailabilityProfile, DataProfile, DiagnosticsProfile,
      DisplayProfile, FirmwareProfile, Iso15118Profile, LocalAuthProfile, MeterProfile,
      ProvisioningProfile, RemoteControlProfile, ReservationProfile, SecurityProfile,
      SmartChargingProfile, TariffCostProfile, TransactionsProfile>>

ChargingStationProfiles ==
    <<AuthorizationProfile, AvailabilityProfile, DataProfile, DiagnosticsProfile,
      DisplayProfile, FirmwareProfile, Iso15118Profile, LocalAuthProfile, MeterProfile,
      ProvisioningProfile, RemoteControlProfile, ReservationProfile, SecurityProfile,
      SmartChargingProfile, TariffCostProfile, TransactionsProfile>>

==============================================================================
