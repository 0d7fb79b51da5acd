CONSTANTS
  openai = openai
  anthropic = anthropic
  m1 = m1
  malformed = malformed
  v1 = v1
  v2 = v2
  Absent = Absent
  Torn = Torn
  None = None
  SmokeProviderKey = {openai, anthropic}
  Issuers = {i1, i2, i3}
  Models = {m1, malformed}
  MODEL_IDENTIFIER = {m1}
  Builds = {b1, b2}
  Policies = {v1, v2}
  IssuerEnvironments <- MCIssuerEnvironments
  FirstBuild = b1
  Upgradable = {openai, anthropic}
  SMOKE_MAX_INVOCATIONS = 1
SPECIFICATION LedgerSpec
CHECK_DEADLOCK FALSE
INVARIANTS
  GrantedIsStanding
PROPERTIES
  GrantIsForEver
