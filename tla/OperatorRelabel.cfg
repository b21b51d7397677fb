SPECIFICATION Spec
CONSTANTS
  MaxTime = 0
  MaxEdits = 2
  UserKinds = {"create", "relabel"}
  MaxFaults = 0
  Namespaces = {}
  NamespaceLabels = {}
  SilenceSelectorText <- NotIgnored
  NamespaceSelectorText <- NoText
  Missing = Missing
  FaultKinds = {}
  SilenceIds = {1, 2}
  NoId = 0
  UserComments = {}
  UserTenants = {}
  InvalidNames = {""}
  InvalidRegexes = {"("}
  EmptyRegexes = {".*"}
  TenancyEnabled = TRUE
  TenancyLabelKey = "tenant"
  TenancyDefaultTenant = "default"
  TenantId = ""
  Callers = {"silence", "silence-v2"}
  Unset = Unset
  Overflow = Overflow
  HundredYears = 100
  Objects <- MCObjV2
  Bodies <- MCBodiesRelabel
  LegacyObjects <- MCNoObjects
  NoObject = NoObject
INVARIANT
  SilenceFollowsTenant
CHECK_DEADLOCK FALSE
