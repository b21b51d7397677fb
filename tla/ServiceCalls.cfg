SPECIFICATION Spec
CONSTANTS
  MaxTime = 2
  MaxEdits = 1
  UserKinds = {"expire", "silence"}
  MaxFaults = 1
  Namespaces = {}
  NamespaceLabels = {}
  FaultKinds = {"refused", "lost"}
  SilenceIds = {1, 2, 3}
  NoId = 0
  UserComments <- MCUserComments
  UserTenants <- MCOneTenant
  InvalidNames = {""}
  InvalidRegexes = {"("}
  EmptyRegexes = {".*"}
  TenancyEnabled = TRUE
  TenancyLabelKey = "tenant"
  TenancyDefaultTenant = "team"
  TenantId = "anonymous"
  Callers = {"silence", "silence-v2"}
  Wanted <- MCWanted
  Tenants <- MCOneTenant
  MaxCalls = 3
INVARIANTS
  TypeOK
  AtMostOneOwn
PROPERTIES
  SyncReturnsOnlyWhenMirrored
  ReturnsOnlyWhenGone
  OthersUntouched
CHECK_DEADLOCK FALSE
