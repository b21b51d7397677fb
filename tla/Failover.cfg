SPECIFICATION Spec
CONSTANTS
  MaxTime = 6
  MaxEdits = 0
  UserKinds = {}
  MaxFaults = 1
  Namespaces = {}
  NamespaceLabels = {}
  FaultKinds = {"refused", "lost"}
  SilenceIds = {i1, i2}
  NoId = NoId
  UserComments = {}
  UserTenants = {}
  InvalidNames = {""}
  InvalidRegexes = {"("}
  EmptyRegexes = {".*"}
  TenancyEnabled = FALSE
  TenancyLabelKey = "tenant"
  TenancyDefaultTenant = "default"
  TenantId = ""
  Callers = {first, next}
  SilenceSelectorText <- MCNoText
  NamespaceSelectorText <- MCNoText
  Missing = Missing
  enableLeaderElection = TRUE
  Address = "http://localhost:9093"
  LeaseDuration = 3
  RenewDeadline = 1
  MaxDelay = 1
  Wanted <- MCWanted
  Nobody = Nobody
SYMMETRY MCSymmetry
INVARIANTS
  OneWriter
  OneSilence
  NoneAfterRelease
CHECK_DEADLOCK FALSE
