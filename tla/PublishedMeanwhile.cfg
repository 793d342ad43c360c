SPECIFICATION ImportSpec
CONSTANTS
  o1 = o1
  o2 = o2
  d1 = d1
  d2 = d2
  Orders = {o1}
  Deliveries = {d1, d2}
  OrderOf <- OneOrder
  Planned = Planned
  Nothing = Nothing
  Jobs = {j1}
  BatchSize = 1
INVARIANT NothingPublishedIsMissed
