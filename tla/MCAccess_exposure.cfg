CONSTANTS
  Tokens = {t1, t2}
  Users = {u1, u2}
  None = None
  Replicas = {r1, r2}
  TTL = 4
  Second = 2
  Skew <- OneAhead
  MaxSkew = 1
  MaxTime = 5
  MaxSecrets = 2
SPECIFICATION Spec
SYMMETRY Interchangeable
INVARIANTS BoundedExposure FullLifetime
