CONSTANTS
  o1 = o1  o2 = o2  o3 = o3  p1 = p1  p2 = p2  p3 = p3  w1 = w1  w2 = w2
  Orders = {o1, o2, o3}
  Payments = {p1, p2, p3}
  Workers = {w1, w2}
  OrderOf <- PaysForO1
  Provider <- AskedFor
  Free = {o2}
  Faults = {"api", "bank", "worker", "task", "tariff"}
  MaxLosses = 1
  None = None
SPECIFICATION FairSpec
CHECK_DEADLOCK FALSE
INVARIANT TypeOK OpenedPerDelivery
PROPERTY LinkArrives FeedsBilling
