SPECIFICATION Spec
CONSTANTS
  Replicas = {n1, n2}
  IPs = {a}
  Requests = {r1, r2, r3}
  Burst = 2
  Second = 2
  Window = 2
  Skew <- NoSkew
  MaxSkew = 0
  MaxDelay = 1
  MaxCount = 4
  MaxTime = 5
SYMMETRY Interchangeable
INVARIANT WindowCapped
