SPECIFICATION Spec
CONSTANTS
  Unset = Unset
  Overflow = Overflow
  HundredYears = 100
  Items <- MCItems
  TARGET_NAMESPACE <- MCNamespace
  DRY_RUN = FALSE
INVARIANT
  MatchersConverted
CHECK_DEADLOCK FALSE
