SPECIFICATION Spec
CONSTANTS
  MaxTime = 2
  MaxEdits = 1
  UserKinds = {"edit"}
  MaxFaults = 0
  Namespaces = {}
  NamespaceLabels = {}
  FaultKinds = {}
  SilenceIds = {1, 2}
  NoId = 0
  UserComments = {}
  UserTenants = {}
  InvalidNames = {""}
  InvalidRegexes = {"("}
  EmptyRegexes = {".*"}
  TenancyEnabled = FALSE
  TenancyLabelKey = "tenant"
  TenancyDefaultTenant = "default"
  TenantId = ""
  Callers = {"silence"}
  Unset = Unset
  Overflow = Overflow
  HundredYears = 100
  Items <- MCItems
  Specs <- MCSpecs
INVARIANTS
  OnlyTheseAreRefused
  MigrationKeepsMeaning
PROPERTY
  EditsMirrored
CHECK_DEADLOCK FALSE
