CONSTANTS
  t1 = t1
  t2 = t2
  shop = shop
  tenant = tenant
  p1 = p1
  Thread = {t1, t2}
  Manager = {shop, tenant}
  Process = {p1}
  ProcessOf <- MCProcessOf
  PerRequest = {tenant}
  Homes <- MCHomes
  SlowRenewal = FALSE
  MaxSwings = 1
  None = None
  Orphan = Orphan
SPECIFICATION LiveSpec
INVARIANTS TypeOK RenewedByOne
PROPERTIES EveryCallEnds RefusedTokenIsReplaced
CHECK_DEADLOCK FALSE
