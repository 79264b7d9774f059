CONSTANTS
  Query = {x1, x2, x3}
  Decision = {d1, d2}
  None = None
  u1 = u1
  a1 = a1
  a2 = a2
  home = home
  away = away
  User = {u1, a1}
  Admin = {a1}
  Tenant = {home}
  TenantOf <- OneTenant
  Sql = {q1}
  Source = {s1}
  TTL = 0
  MaxTime = 0
  EnterpriseInstalled = TRUE
  CommitMayFail = FALSE
SPECIFICATION Spec
SYMMETRY Requests
CHECK_DEADLOCK FALSE
PROPERTIES NoReplay NoLateDecision LastDecisionStands LedgerSpec
