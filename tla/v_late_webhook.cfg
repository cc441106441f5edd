CONSTANTS
  o1 = o1  p1 = p1  p2 = p2  d1 = d1  d2 = d2  r1 = r1  r2 = r2  r3 = r3  w1 = w1  w2 = w2
  Orders = {o1}
  Payments = {p1}
  Drivers = {d1}
  Requests = {r1}
  Workers = {w1}
  OrderOf <- AllForO1
  ProviderOf <- AllTBank
  Faults = {}
  None = None
SPECIFICATION Spec
INVARIANT SearchingHasHold
