CONSTANTS
  o1 = o1  o2 = o2  o3 = o3  p1 = p1  d1 = d1  r1 = r1  r2 = r2  w1 = w1
  s1 = s1  s2 = s2  b1 = b1  b2 = b2  g1 = g1
  Orders = {o1, o2, o3}
  Payments = {p1}
  Drivers = {}
  Requests = {r1}
  Workers = {}
  Slots = {s1}
  Capacity <- ThreePlaces
  Bookings = {b1}
  Deletions = {}
  Cancellers = {"guide"}
  Faults = {}
  OrderOf <- PaysForO1
  ProviderOf <- AllTBank
  DateOf <- SameDate
  Pax <- PaxByOrder
  None = None
SPECIFICATION TourSpec
CHECK_DEADLOCK FALSE
INVARIANT NoOverbooking
