SPECIFICATION StockSpec
CONSTANTS
  Scenarios = {"transfer", "inventory", "reception", "repairs", "direct", "details"}
  Transfers = {t1, t2}
  Requests = {r1}
  MaxCopies = 2
  shelf = shelf
  cellar = cellar
  Places = {shelf, cellar}
  ProductOf <- Product
  LocationOf <- Location
  Main = "store"
  MaxQuantity = 1
  MaxLines = 2
  Missing = Missing
  Nothing = Nothing
  Receipts = {p1, p2}
  Bills = {b1, b2, b3}
  MaxReceived = 2
  Prices = {0, 1, 2}
  rice = rice
  Inventories = {v1}
  Nowhere = Nowhere
  Till = Till
  Stocked = {rice}
  Costs = {1, 2}
  Repairs <- TwoSheets
  MaxEntered = 3
  Goods = {rice}
  Clerks = {c1, c2}
  Slips = {s1}
  Sendings = {e1}
  MaxHandled = 1
  Worths = {0, 1, 2}
  Details = {d1, d2}
  Texts = {x, y}
  Closed = Closed
CHECK_DEADLOCK FALSE
INVARIANT StockInv
PROPERTY ClaimIsLoss
PROPERTY BilledIsReceived
PROPERTY RepairsAreSafe
