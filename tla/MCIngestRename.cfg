CONSTANTS
  c1 = c1
  none = none
  Odd = Odd
  None = none
  Tiers = {0, 1, 2}
  Full = 2
  Keys <- MCKeys
  Dims <- MCDims
  LabelDim = "dim.label"
  Label = "label"
  Service = "service.name"
  MaxDims = 2
  Clients = {c1}
  Batches <- MCBatches
  Files <- MCFiles
  Configs <- MCConfigs
  Catalogs <- MCCatalogs
  Reason = "reason"
  MaxBatch = 2
  MaxSends = 2
  MaxChanges = 2
  e1 = e1  e2 = e2  s1 = s1  s2 = s2
  Callers = {e1, e2}
  Tenants = {c1}
  Methods = {"api_key", "jwt"}
  Defaults <- MCDefaults
  PerMethod <- MCPerMethod
  Settings <- MCSettings
  Sizes = {1, 2}
  MaxClock = 1
  Null = Null
  ValidSchemas = {s1, s2}
  Broken = Broken
  GrpcExports = {e1}
  HttpExports = {e2}
  MaxSaves = 2
  r1 = r1  r2 = r2  viewer = viewer  editor = editor
  Requests = {r1, r2}
  Lookups = {"key", "tenant", "memberships", "active"}
  TenantConfigs = {c1}
  Roles = {viewer, editor}
  TTL = 2
  Second = 1
  HasJanitor = TRUE
  MaxLookup = 1
  MaxTime = 3
  MaxOperations = 2
  Absent = Absent
  Parts = {"process"}
SPECIFICATION MCSpec
PROPERTY RenamedSchemaIsServed
CHECK_DEADLOCK FALSE
