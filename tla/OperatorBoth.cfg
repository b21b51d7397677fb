SPECIFICATION Spec
CONSTANTS
  MaxTime = 0
  MaxEdits = 2
  UserKinds = {"create", "edit", "delete"}
  MaxFaults = 1
  Namespaces = {}
  NamespaceLabels = {}
  SilenceSelectorText <- NotIgnored
  NamespaceSelectorText <- NoText
  Missing = Missing
  FaultKinds = {"refused", "lost", "crash"}
  SilenceIds = {1, 2, 3}
  NoId = 0
  UserComments = {}
  UserTenants = {}
  InvalidNames = {""}
  InvalidRegexes = {"("}
  EmptyRegexes = {".*"}
  TenancyEnabled = TRUE
  TenancyLabelKey = "tenant"
  TenancyDefaultTenant = "default"
  TenantId = ""
  Callers = {"silence", "silence-v2"}
  Unset = Unset
  Overflow = Overflow
  HundredYears = 100
  Objects <- MCBothObjects
  Bodies <- MCBodiesBoth
  LegacyObjects <- MCObjV1
  NoObject = NoObject
INVARIANTS
  IInv
  NoOrphan
  AtMostOneOwn
PROPERTY
  LegacyHandover
CHECK_DEADLOCK FALSE
