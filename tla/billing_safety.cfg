CONSTANTS
  o1 = o1  p1 = p1  p2 = p2  d1 = d1  d2 = d2  r1 = r1  r2 = r2  r3 = r3  w1 = w1  w2 = w2
  Orders = {o1}
  Payments = {p1, p2}
  Drivers = {d1, d2}
  Requests = {r1, r2}
  Workers = {w1, w2}
  OrderOf <- AllForO1
  ProviderOf <- OneOfEach
  Faults = {"api", "bank", "worker", "task"}
  None = None
SPECIFICATION Spec
SYMMETRY Symmetry
INVARIANT TypeOK RefundedOnce LedgerFollowsBank PaidBeforeWork RefundUnderWay
PROPERTY KeepsAccounts TakenOffExchangeOnly ReopenedOnlyByNewPayment
