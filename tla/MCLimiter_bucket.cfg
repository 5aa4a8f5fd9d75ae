SPECIFICATION Spec
CONSTANTS
  IPs = {a, b}
  Burst = 2
  Rate = 1
  Cost = 2
  EvictAfter = 3
  MaxTime = 10
SYMMETRY Interchangeable
INVARIANTS
  TypeOK
  AdmissionsBounded
PROPERTY ImplementsBucket
