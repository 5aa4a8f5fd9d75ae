SPECIFICATION Spec
CONSTANTS
  Emails = {e1, e2}
  Passwords = {p1, p2}
  Requests = {r1, r2}
  Tokens = {t1, t2, t3}
  RefreshTTL = 0
  MaxTime = 1
  None = None
SYMMETRY Interchangeable
INVARIANTS
  TypeOK
  OneCurrentToken
  SingleUse
  SuccessRevokes
  IssueAuthenticated
PROPERTY ImplementsSessions
