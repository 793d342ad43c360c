SPECIFICATION TillSpec
CONSTANTS
  Scenarios = {"approvals", "discounts", "closing", "history", "budgets"}
  Tickets = {t1, t2}
  NoTicket = NoTicket
  Clicks = {c1}
  Carts = {{"auto"}, {"price", "stock"}}
  Roles = {"caissiere", "superviseur"}
  MaxCodes = 2
  Products = {p1, p2}
  Discountable = {p1}
  Partners = {q1, q2, q3}
  Eligible = {q1, q2}
  Excluded = {q2, q3}
  Nobody = Nobody
  MaxLines = 3
  Popups = {w1, w2}
  NoPopup = NoPopup
  MaxCash = 3
  MaxSales = 2
  r1 = r1
  r2 = r2
  k1 = k1
  NoRef = NoRef
  Refs = {r1, r2}
  NoClient = NoClient
  Clients = {k1}
  Days = {1, 2}
  Histories <- SomeHistories
  MaxMade = 3
  m1 = m1
  m2 = m2
  Bookings = {m1, m2}
  Analytics = {a1, a2}
  OwnAnalytic = a1
  BudgetDays = {1, 2}
  AmountOf <- Equal
  MaxNatives = 2
CONSTRAINT Within
SYMMETRY Symmetry
CHECK_DEADLOCK FALSE
INVARIANT TillInv
PROPERTY TillSteps
