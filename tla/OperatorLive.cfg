SPECIFICATION LiveSpec
CONSTANTS
  MaxTime = 2
  MaxEdits = 3
  UserKinds = {"create", "edit", "delete", "namespace", "expire"}
  MaxFaults = 1
  Namespaces <- MCTeam
  NamespaceLabels <- MCTeamLabels
  SilenceSelectorText <- NotIgnored
  NamespaceSelectorText <- Production
  Missing = Missing
  FaultKinds = {"refused", "lost", "status", "crash"}
  SilenceIds = {1, 2}
  NoId = 0
  UserComments = {}
  UserTenants = {}
  InvalidNames = {""}
  InvalidRegexes = {"("}
  EmptyRegexes = {".*"}
  TenancyEnabled = FALSE
  TenancyLabelKey = "tenant"
  TenancyDefaultTenant = "default"
  TenantId = ""
  Callers = {"silence", "silence-v2"}
  Unset = Unset
  Overflow = Overflow
  HundredYears = 100
  Objects <- MCObjV2
  Bodies <- MCBodiesLive
  LegacyObjects <- MCNoObjects
  NoObject = NoObject
PROPERTIES
  EventuallyMirrored
  DeletionCompletes
CHECK_DEADLOCK FALSE
