SPECIFICATION Spec
CONSTANTS
  Reader = {p1, p2}
  Editor = {e1}
  Source = {s1}
  None = None
  TTL = 1
  Lag = 1
  MaxTime = 3
  OpenUntil = 1
  RoleExempt = FALSE
  AdminRole = TRUE
  MaskingSettings = {TRUE, FALSE}
  UnclassifiedPolicies = {"deny", "allow"}
  RuleKinds <- EveryRule
SYMMETRY Requests
INVARIANTS Inv StaleBounded StaleOnlyByRace OwnRowFilters ScheduleOverrunBounded
CHECK_DEADLOCK FALSE
