------------------------------ MODULE OcppApi16 ------------------------------
(***************************************************************************)
(* The two sides of OCPP 1.6   as the packages above ocppj build them: the  *)
(* features a side offers as methods, the ones SendRequestAsync lets        *)
(* through, and the switch by which handleIncomingRequest picks a handler.  *)
(***************************************************************************)
EXTENDS OcppFeatures16

CentralSystemCalls1 ==
    [ChangeAvailability |-> "ChangeAvailabilityConfirmation",
     ChangeConfiguration |-> "ChangeConfigurationConfirmation",
     ClearCache |-> "ClearCacheConfirmation", DataTransfer |-> "DataTransferConfirmation",
     GetConfiguration |-> "GetConfigurationConfirmation",
     RemoteStartTransaction |-> "RemoteStartTransactionConfirmation",
     RemoteStopTransaction |-> "RemoteStopTransactionConfirmation",
     Reset |-> "ResetConfirmation", UnlockConnector |-> "UnlockConnectorConfirmation",
     GetLocalListVersion |-> "GetLocalListVersionConfirmation"]

CentralSystemCalls2 ==
    [SendLocalList |-> "SendLocalListConfirmation",
     GetDiagnostics |-> "GetDiagnosticsConfirmation",
     UpdateFirmware |-> "UpdateFirmwareConfirmation", ReserveNow |-> "ReserveNowConfirmation",
     CancelReservation |-> "CancelReservationConfirmation",
     TriggerMessage |-> "TriggerMessageConfirmation",
     SetChargingProfile |-> "SetChargingProfileConfirmation",
     ClearChargingProfile |-> "ClearChargingProfileConfirmation",
     GetCompositeSchedule |-> "GetCompositeScheduleConfirmation",
     ExtendedTriggerMessage |-> "ExtendedTriggerMessageResponse"]

CentralSystemCalls3 ==
    [CertificateSigned |-> "CertificateSignedResponse",
     SignedUpdateFirmware |-> "SignedUpdateFirmwareResponse",
     GetInstalledCertificateIds |-> "GetInstalledCertificateIdsResponse",
     InstallCertificate |-> "InstallCertificateResponse",
     DeleteCertificate |-> "DeleteCertificateResponse", GetLog |-> "GetLogResponse"]

CentralSystemCalls == CentralSystemCalls1 @@ CentralSystemCalls2 @@ CentralSystemCalls3

CentralSystemAsync ==
    {"ChangeAvailability", "ChangeConfiguration", "ClearCache", "DataTransfer",
     "GetConfiguration", "RemoteStartTransaction", "RemoteStopTransaction", "Reset",
     "UnlockConnector", "GetLocalListVersion", "SendLocalList", "GetDiagnostics",
     "UpdateFirmware", "ReserveNow", "CancelReservation", "TriggerMessage",
     "SetChargingProfile", "ClearChargingProfile", "GetCompositeSchedule", "CertificateSigned",
     "SignedUpdateFirmware", "GetLog", "ExtendedTriggerMessage", "GetInstalledCertificateIds",
     "DeleteCertificate", "InstallCertificate"}

CentralSystemNilChecked ==
    {"Core", "LocalAuthListManagement", "FirmwareManagement", "Reservation", "RemoteTrigger",
     "SmartCharging", "Log", "Security", "SecureFirmwareUpdate"}

CentralSystemRoute ==
    [BootNotification |-> "Core", Authorize |-> "Core", DataTransfer |-> "Core",
     Heartbeat |-> "Core", MeterValues |-> "Core", StartTransaction |-> "Core",
     StopTransaction |-> "Core", StatusNotification |-> "Core",
     DiagnosticsStatusNotification |-> "FirmwareManagement",
     FirmwareStatusNotification |-> "FirmwareManagement", SignCertificate |-> "Security",
     SecurityEventNotification |-> "Security", LogStatusNotification |-> "Log",
     SignedFirmwareStatusNotification |-> "SecureFirmwareUpdate"]

ChargePointCalls1 ==
    [BootNotification |-> "BootNotificationConfirmation", Authorize |-> "AuthorizeConfirmation",
     DataTransfer |-> "DataTransferConfirmation", Heartbeat |-> "HeartbeatConfirmation",
     MeterValues |-> "MeterValuesConfirmation",
     StartTransaction |-> "StartTransactionConfirmation",
     StopTransaction |-> "StopTransactionConfirmation",
     StatusNotification |-> "StatusNotificationConfirmation",
     DiagnosticsStatusNotification |-> "DiagnosticsStatusNotificationConfirmation",
     FirmwareStatusNotification |-> "FirmwareStatusNotificationConfirmation",
     SecurityEventNotification |-> "SecurityEventNotificationResponse"]

ChargePointCalls2 ==
    [SignCertificate |-> "SignCertificateResponse",
     SignedFirmwareStatusNotification |-> "SignedFirmwareStatusNotificationResponse",
     LogStatusNotification |-> "LogStatusNotificationResponse"]

ChargePointCalls == ChargePointCalls1 @@ ChargePointCalls2

ChargePointAsync ==
    {"Authorize", "BootNotification", "DataTransfer", "Heartbeat", "MeterValues",
     "StartTransaction", "StopTransaction", "StatusNotification",
     "DiagnosticsStatusNotification", "FirmwareStatusNotification", "LogStatusNotification",
     "SignedFirmwareStatusNotification", "SecurityEventNotification", "SignCertificate"}

ChargePointNilChecked ==
    {"Core", "LocalAuthListManagement", "FirmwareManagement", "Reservation", "RemoteTrigger",
     "SmartCharging", "Security", "Log", "ExtendedTriggerMessage", "SecureFirmwareUpdate",
     "Certificates"}

ChargePointRoute ==
    [ChangeAvailability |-> "Core", ChangeConfiguration |-> "Core", ClearCache |-> "Core",
     DataTransfer |-> "Core", GetConfiguration |-> "Core", RemoteStartTransaction |-> "Core",
     RemoteStopTransaction |-> "Core", Reset |-> "Core", UnlockConnector |-> "Core",
     GetLocalListVersion |-> "LocalAuthListManagement",
     SendLocalList |-> "LocalAuthListManagement", GetDiagnostics |-> "FirmwareManagement",
     UpdateFirmware |-> "FirmwareManagement", ReserveNow |-> "Reservation",
     CancelReservation |-> "Reservation", TriggerMessage |-> "RemoteTrigger",
     SetChargingProfile |-> "SmartCharging", ClearChargingProfile |-> "SmartCharging",
     GetCompositeSchedule |-> "SmartCharging", CertificateSigned |-> "Security",
     GetLog |-> "Log", SignedUpdateFirmware |-> "SecureFirmwareUpdate",
     GetInstalledCertificateIds |-> "Certificates", DeleteCertificate |-> "Certificates",
     InstallCertificate |-> "Certificates", ExtendedTriggerMessage |-> "ExtendedTriggerMessage"]

CentralSystemProfiles ==
    <<CoreProfile, LocalAuthProfile, FirmwareProfile, ReservationProfile, RemoteTriggerProfile,
      SmartChargingProfile, LoggingProfile, SecurityProfile, ExtendedTriggerMessageProfile,
      CertificatesProfile, SecureFirmwareProfile>>

ChargePointProfiles ==
    <<CoreProfile, LocalAuthProfile, FirmwareProfile, ReservationProfile, RemoteTriggerProfile,
      SmartChargingProfile, LoggingProfile, SecurityProfile, ExtendedTriggerMessageProfile,
      CertificatesProfile, SecureFirmwareProfile>>

==============================================================================
