SPECIFICATION Spec
CONSTANTS
  acme = acme
  Acme = Acme
  pg = pg
  acmeDb = acmeDb
  pgDb = pgDb
  Tenants = {acme, Acme, pg}
  DefaultTenant = acme
  Unnamed = Unnamed
  TenantDbs = {acmeDb, pgDb}
  BootDb = pgDb
  DbOf <- MCDbOf
  Requests = {r1, r2}
  Statements = 2
  DictTable = 1
  MaxFaults = 0
CHECK_DEADLOCK FALSE
INVARIANT WritesRefreshTheirDatabase
