SPECIFICATION FairDeployment
CONSTANTS
  ada = ada
  bob = bob
  r1 = r1
  r2 = r2
  Requests = {r1, r2}
  Ids = {ada, bob}
  Fold <- MCFold
  Keys <- MCKeys
  Payloads <- MCPayloads
  AllowContact = FALSE
  Failures = {"credentials", "authentication", "upstream"}
  None = None
  Ttl = 1
  MaxEntries = 1
  SecretTtl = 1
  MaxLoad = 1
  Versions = 2
  MaxDenials = 1
  Horizon = 1
  Configurations <- MCConfigurations
INVARIANTS RefusalsHeal RightProfile
PROPERTY EveryoneAnswered
