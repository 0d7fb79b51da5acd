CONSTANTS
  openai = openai
  anthropic = anthropic
  m1 = m1
  m2 = m2
  malformed = malformed
  v1 = v1
  v2 = v2
  Absent = Absent
  Torn = Torn
  None = None
  SmokeProviderKey = {openai, anthropic}
  Issuers = {i1}
  Runners = {r1, r2}
  Models = {m1, m2, malformed}
  MODEL_IDENTIFIER = {m1, m2}
  Builds = {b1, b2}
  Policies = {v1, v2}
  IssuerEnvironments <- MCIssuerEnvironments
  FirstBuild = b1
  Upgradable = {anthropic}
  SMOKE_MAX_INVOCATIONS = 1
  PROVIDER_ORDER <- MCOrder
  RunnerEnvironments <- MCRunnerEnvironments
  Reports <- MCReports
SPECIFICATION SmokeSpec
CHECK_DEADLOCK FALSE
INVARIANTS
  SmokeConsistent
  SecurityHalt
  PassIsEarned
PROPERTIES
  ImplementsOneTimeAuthorization
  EnvelopeReturned
