CONSTANTS
  o1 = o1  o2 = o2  o3 = o3  p1 = p1  d1 = d1  r1 = r1  r2 = r2  w1 = w1
  s1 = s1  s2 = s2  b1 = b1  b2 = b2  g1 = g1
  Orders = {o1, o2}
  Payments = {p1}
  Drivers = {d1}
  Requests = {r1}
  Workers = {w1}
  Slots = {s1, s2}
  Capacity <- TwoPlaces
  Bookings = {b1, b2}
  Deletions = {g1}
  Cancellers = {"guide", "driver"}
  Faults = {"api", "bank", "worker", "task"}
  OrderOf <- PaysForO1
  ProviderOf <- AllTBank
  DateOf <- SameDate
  Pax <- PaxByOrder
  None = None
SPECIFICATION TourSpec
CHECK_DEADLOCK FALSE
SYMMETRY BookingSymmetry
INVARIANT TourTypeOK NoOrphanOrders PhotosOutliveProgramme SeatsAddUp
PROPERTY BookingsSubtract ImplementsBilling
