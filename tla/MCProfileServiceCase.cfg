SPECIFICATION Spec
CONSTANTS
  ada = ada
  Ada = Ada
  bob = bob
  r1 = r1
  r2 = r2
  r3 = r3
  Requests = {r1, r2, r3}
  Ids = {ada, Ada}
  Fold <- MCFold
  Keys <- MCKeys
  Payloads <- MCPayloads
  AllowContact = TRUE
  Failures = {"upstream"}
  None = None
  Ttl = 1
  MaxEntries = 1
  Horizon = 2
SYMMETRY RequestSymmetry
INVARIANT OneFetchPerProfile
