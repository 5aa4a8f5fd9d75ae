SPECIFICATION Spec
CONSTANTS
  Users = {u1, u2}
  Titles = {a}
  Requests = {r1, r2}
  MaxTasks = 2
  DefaultPageLimit = 1
  MaxPageLimit = 2
  PageArgs <- AskedFor
  None = None
SYMMETRY Interchangeable
INVARIANTS
  TypeOK
  OwnTasksOnly
  OneDeleteSucceeds
PROPERTIES
  OwnerWrites
  DeletedStaysDeleted
