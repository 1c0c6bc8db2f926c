\* The founder of a tenant, another user or founder, two requests side by side.
SPECIFICATION FairSpec
CONSTANTS
  e1 = e1
  e2 = e2
  MaxBusy = 2
  MaxId = 2
  MaxTenant = 2
  Emails = {e1, e2}
  Mail = e1
INVARIANTS TypeOK SomebodyManages
PROPERTIES TenantsApart LockedOut
\* Every user may end up disabled, with no token and every email taken.
CHECK_DEADLOCK FALSE
