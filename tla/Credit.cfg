SPECIFICATION CreditSpec
CONSTANTS
  Scenarios = {"food", "loyalty", "limit"}
  Employees = {e1}
  Names = {"button", "wizard"}
  ButtonName = "button"
  Days = {1, 2}
  Period <- PeriodOf
  Grants = {0, 1}
  MaxPaid = 2
  MaxGranted = 2
  Invoices = {v1, v2}
  TillOrders = {o1, o2}
  MaxPoints = 2
  MaxHistory = 4
  MaxAmount = 2
  Documents = {d1, d2}
  Payments = {p1}
  MaxDue = 2
  MaxLimit = 2
  Unread = Unread
  Lost = Lost
CONSTRAINT Within
SYMMETRY Symmetry
VIEW Unlinked
CHECK_DEADLOCK FALSE
INVARIANT FoodInv

 
PROPERTY LedgerTracesConsumption
PROPERTY LimitRespected
