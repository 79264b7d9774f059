CONSTANTS
  Query = {x1, x2}
  Decision = {d1, d2}
  None = None
  u1 = u1
  a1 = a1
  a2 = a2
  home = home
  away = away
  User = {u1, a1, a2}
  Admin = {a1, a2}
  Tenant = {home, away}
  TenantOf <- TwoTenants
  Sql = {q1, q2}
  Source = {s1}
  TTL = 1
  MaxTime = 2
  EnterpriseInstalled = FALSE
  CommitMayFail = TRUE
SPECIFICATION Spec
SYMMETRY Requests
CHECK_DEADLOCK FALSE
INVARIANTS Inv ApprovedByAnother RunMatchesApproval WithinLifetime
