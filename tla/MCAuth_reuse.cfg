SPECIFICATION Spec
CONSTANTS
  Emails = {e1}
  Passwords = {p1}
  Requests = {r1, r2}
  Tokens = {t1, t2, t3}
  RefreshTTL = 0
  MaxTime = 0
  None = None
INVARIANT ReuseEndsSession
