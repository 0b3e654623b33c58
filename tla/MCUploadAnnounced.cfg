SPECIFICATION Spec
CONSTANTS
  u1 = u1
  u2 = u2
  t1 = t1
  t2 = t2
  Unit = {u1, u2}
  Tenant = {t1, t2}
  TenantOf <- MCTenantOf
  AppConn = {a1}
  OwnerConn = {o1}
  NoConn = NoConn
  NoTenant = NoTenant
INVARIANTS
  UploadIsAnnounced
CHECK_DEADLOCK FALSE
