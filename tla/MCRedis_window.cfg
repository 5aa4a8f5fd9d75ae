SPECIFICATION Spec
CONSTANTS
  Replicas = {n1, n2}
  IPs = {a}
  Requests = {r1, r2}
  Burst = 1
  Second = 2
  Window = 2
  Skew <- OneAhead
  MaxSkew = 1
  MaxDelay = 1
  MaxCount = 2
  MaxTime = 5
SYMMETRY Interchangeable
INVARIANTS
  WindowBounded
  NoKeyStaysBehind
