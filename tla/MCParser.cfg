SPECIFICATION Spec
CONSTANTS
  ada = ada
  Ada = Ada
  bob = bob
  m1 = m1
  m2 = m2
  Nothing = Nothing
  Malformed = Malformed
  Ids = {ada, Ada, bob}
  Members = {m1, m2}
  Fold <- MCFold
  PublicIdentifier = ada
  SectionNames = {"skills", "honors"}
  NeedName = {"skills"}
  Primaries <- MCPrimaries
  Others <- MCOthers
  MaxFetched = 3
  MaxDocuments = 16
  MaxEntities = 3
INVARIANTS ServedIsRequested SectionsOwned ProfileComplete RefusalsExplained
