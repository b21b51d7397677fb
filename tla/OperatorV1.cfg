SPECIFICATION Spec
CONSTANTS
  MaxTime = 2
  MaxEdits = 4
  UserKinds = {"create", "edit", "delete"}
  MaxFaults = 2
  Namespaces = {}
  NamespaceLabels = {}
  SilenceSelectorText <- NotIgnored
  NamespaceSelectorText <- NoText
  Missing = Missing
  FaultKinds = {"refused", "lost", "crash"}
  SilenceIds = {1, 2}
  NoId = 0
  UserComments = {}
  UserTenants = {}
  InvalidNames = {""}
  InvalidRegexes = {"("}
  EmptyRegexes = {".*"}
  TenancyEnabled = TRUE
  TenancyLabelKey = "tenant"
  TenancyDefaultTenant = "default"
  TenantId = ""
  Callers = {"silence", "silence-v2"}
  Unset = Unset
  Overflow = Overflow
  HundredYears = 100
  Objects <- MCObjV1
  Bodies <- MCBodiesV1
  LegacyObjects <- MCNoObjects
  NoObject = NoObject
INVARIANTS
  TypeOK
  NoOrphan
  AtMostOneOwn
  QuiescentMirrored
PROPERTY
  ImplementsGuard
CHECK_DEADLOCK FALSE
