SPECIFICATION ImportSpec
CONSTANTS
  o1 = o1
  o2 = o2
  d1 = d1
  d2 = d2
  Orders = {o1, o2}
  Deliveries = {d1, d2}
  OrderOf <- OneOrder
  Planned = Planned
  Nothing = Nothing
  Jobs = {j1, j2}
  BatchSize = 2
SYMMETRY Symmetry
CONSTRAINT OneOrderLives
INVARIANT ImportInv
PROPERTY MarkedWhileAwaiting
