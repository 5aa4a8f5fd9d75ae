CONSTANTS
  Procs = {p1, p2}
  U = 2
  Templates = 4
  PerUser = 3
  PageLimit = 3
  Faults = {"signup", "list", "create", "update", "kill"}
  MaxFaults = 2
  MaxRuns = 2
  MaxOwn = 1
SPECIFICATION Spec
SYMMETRY Interchangeable
INVARIANTS TypeOK NoDuplicates LeavesAll StatusesSeeded
