SPECIFICATION Spec
CONSTANTS
  Keys = {k1, k2, k3}
  Payloads = {p1, p2}
  Ttl = 1
  MaxEntries = 2
  Horizon = 3
  MaxCalls = 7
SYMMETRY KeySymmetry
INVARIANTS TypeOK ListMatchesItems OrderedByUse OnlyOldestLost
PROPERTY HitIsLatest
