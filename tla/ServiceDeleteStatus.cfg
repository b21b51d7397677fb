SPECIFICATION Spec
CONSTANTS
  MaxTime = 2
  MaxEdits = 1
  UserKinds = {"expire", "silence"}
  MaxFaults = 1
  Namespaces = {}
  NamespaceLabels = {}
  FaultKinds = {"refused", "lost", "status"}
  SilenceIds = {1, 2, 3}
  NoId = 0
  UserComments <- MCUserComments
  UserTenants <- MCOneTenant
  InvalidNames = {""}
  InvalidRegexes = {"("}
  EmptyRegexes = {".*"}
  TenancyEnabled = TRUE
  TenancyLabelKey = "tenant"
  TenancyDefaultTenant = "team"
  TenantId = "anonymous"
  Callers = {"silence", "silence-v2"}
  Wanted <- MCWanted
  Tenants <- MCOneTenant
  MaxCalls = 3
PROPERTY
  ReturnsOnlyWhenGone
CHECK_DEADLOCK FALSE
