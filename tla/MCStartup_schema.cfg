CONSTANTS
  Replicas = {r1, r2, r3}
  N = 2
  MaxAttempts = 2
  MaxFaults = 2
SPECIFICATION StartupSpec
INVARIANTS StartupTypeOK ServingHasSchema AppliedInOrder
PROPERTIES EveryReplicaServes
