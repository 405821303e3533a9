CONSTANTS
  Tenant = {"org_1"}
  FoundAt = {0}
SPECIFICATION MigrationsSpec
INVARIANT UpgradesGoThrough
CHECK_DEADLOCK FALSE
