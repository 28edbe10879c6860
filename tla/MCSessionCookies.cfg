SPECIFICATION Spec
CONSTANTS
  liA = liA
  liB = liB
  liUnsafe = liUnsafe
  liLong = liLong
  t1 = t1
  t2 = t2
  LiAts <- MCLiAts
  tUnsafe = tUnsafe
  Tokens = {t1, t2, tUnsafe}
  Unsafe = {liUnsafe, tUnsafe}
  Oversized = {liLong}
  Configured <- MCConfigured
  None = None
INVARIANTS CredentialsAgree AcceptedExactly
