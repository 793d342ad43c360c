SPECIFICATION CreditSpec
CONSTANTS
  Scenarios = {"food"}
  Employees = {e1}
  Names = {"button", "wizard"}
  ButtonName = "button"
  Days = {1, 2}
  Period <- PeriodOf
  Grants = {0, 1}
  MaxPaid = 2
  MaxGranted = 2
  Invoices = {v1, v2}
  TillOrders = {o1, o2}
  MaxPoints = 3
  MaxHistory = 4
  MaxAmount = 2
  Documents = {d1}
  Payments = {p1}
  MaxDue = 1
  MaxLimit = 1
  Unread = Unread
  Lost = Lost
CHECK_DEADLOCK FALSE
INVARIANT LinkedIsBilled
