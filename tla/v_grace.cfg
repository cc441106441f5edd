CONSTANTS
  r1 = r1  r2 = r2
  Requests = {r1, r2}
  MaxSid = 3
  MaxSessions = 1
SPECIFICATION Spec
SYMMETRY Symmetry
PROPERTY GraceKept
