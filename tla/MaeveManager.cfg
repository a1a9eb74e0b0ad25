SPECIFICATION Spec
CONSTANTS
  Managers = {"m1", "m2"}
  Names = {"a", "b"}
  Unparsable = {"b"}
  Values = {"v", "w"}
  Leaf = "leaf"
  Root = "root"
  Triggers = {"BootNotification", "SignV2GCertificate"}
  Plain = {"BootNotification"}
  WireLen = 1
  Uses <- MCUses
INVARIANTS StatusIsStations RecordComplete
PROPERTIES AnsweredOnce CallAnswered PendingSent
CHECK_DEADLOCK FALSE
