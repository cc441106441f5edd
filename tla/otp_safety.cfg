CONSTANTS
  r1 = r1  r2 = r2  c1 = c1  c2 = c2
  Requests = {r1, r2}
  Codes = {c1, c2}
  DailyLimit = 2
  RetryLimit = 2
SPECIFICATION Spec
SYMMETRY Symmetry
INVARIANT TypeOK CallsLimited AttemptsLimited LocksEnd
PROPERTY SpentAdmitsNoMore
