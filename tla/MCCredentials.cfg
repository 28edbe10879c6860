SPECIFICATION FairSpec
CONSTANTS
  Calls = {c1, c2}
  Ttl = 2
  MaxLoad = 1
  Versions = 2
  Horizon = 5
  None = None
INVARIANT LoadsAreNeeded
PROPERTIES ClearHeals RotationTakesEffect EveryoneGetsThrough
