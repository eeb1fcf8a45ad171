SPECIFICATION FairSpec
CONSTANTS
  acme = acme
  Acme = Acme
  pg = pg
  acmeDb = acmeDb
  pgDb = pgDb
  Tenants = {acme, Acme, pg}
  DefaultTenant = acme
  Unnamed = Unnamed
  TenantDbs = {acmeDb, pgDb}
  BootDb = pgDb
  DbOf <- MCDbOf
  Requests = {r1, r2}
  Statements = 2
  DictTable = 1
  MaxFaults = 1
CHECK_DEADLOCK FALSE
INVARIANTS
  TypeOK
  ReadyIsPrepared
  OwnDatabase
  FreshUnderItsName
PROPERTY PreparedAfterFaults
