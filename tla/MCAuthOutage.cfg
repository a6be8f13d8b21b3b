CONSTANTS
  t1 = t1  t2 = t2
  Tenants = {t1, t2}
  AuthConfigs <- MCConfigs
  Tokens <- MCTokens
  MaxEdits = 1
  NoTenant = NoTenant
  NoToken = NoToken
  r1 = r1  r2 = r2  k1 = k1  k2 = k2  o1 = o1  o2 = o2
  Requests = {r1, r2}
  Kids = {k1, k2}
  JWTs <- MCJWTs
  Opaque = {o1, o2}
  Exp <- MCExp
  CacheTTL = 2
  Cooldown = 1
  IntroTTL = 2
  NegativeTTL = 1
  Leeway = 1
  MaxEntries = 1
  MaxFetch = 1
  MaxTime = 3
  MaxChanges = 2
  NoKid = NoKid
  None = None
  Failed = Failed
  Parts = {"verifiers"}
SPECIFICATION MCSpec
SYMMETRY Symmetry
INVARIANT UnknownIsTheProvidersWord
CHECK_DEADLOCK FALSE
