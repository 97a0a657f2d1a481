SPECIFICATION FairSpec
CONSTANTS
  u1 = u1  u2 = u2  r1 = r1  r2 = r2  o1 = o1  o2 = o2
  Users = {u1, u2}
  Requests = {r1, r2}
  Roles = {"owner", "superadmin", "ours", "theirs"}
  Watched = {"manage:users", "manage:roles", "manage:all"}
  Grants <- NoneOrAll
  Org <- TwoOrgs
  Start <- OwnerAndAdmin
  MaxChanges = 2
  None = None
INVARIANT ServedWereGranted
PROPERTIES TenantsAreIsolated RevocationTakesEffect
\* With every user deleted nothing is left to do.
CHECK_DEADLOCK FALSE
