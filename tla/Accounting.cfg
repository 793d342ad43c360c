SPECIFICATION AccountingSpec
CONSTANTS
  Scenarios = {"entries", "lines", "reports", "fne"}
  x1 = x1
  p1 = p1
  i1 = i1
  n1 = n1
  Sessions = {x1}
  Limits = {p1}
  SessionOf <- InSession
  Settlements = {s1, s2}
  Coded = {s1}
  SaleInvoices = {v1}
  Senders = {w1, w2}
  MaxRetries = 2
  MaxCopies = 3
  t1 = t1
  t2 = t2
  cash = cash
  card = card
  limit = limit
  food = food
  check = check
  r18 = r18
  r9 = r9
  b1 = b1
  b2 = b2
  Tickets = {t1, t2}
  Rates = {r18, r9}
  Payments = {cash, card, limit, food, check}
  TicketOf <- TicketOfEach
  Kind <- KindOfEach
  Reglements = {g1}
  Pieces = {b1, b2}
  Avoirs = {b2}
  Baskets <- SomeBaskets
  Amounts <- SomeAmounts
  Contents <- SomeContents
  o1 = o1
  o2 = o2
  o3 = o3
  o4 = o4
  d1 = d1
  d2 = d2
  k1 = k1
  k2 = k2
  c1 = c1
  c2 = c2
  e1 = e1
  e2 = e2
  h1 = h1
  h2 = h2
  a1 = a1
  a2 = a2
  f1 = f1
  f2 = f2
  Orders <- Orders4
  Source <- SourceOf
  OrderDate <- DateOfEach
  Buyer <- BuyerOf
  Cashier <- CashierOf
  Drawer <- DrawerOf
  Lines <- Lines6
  OrderOf <- FirstOf
  Sort <- SortOf
  Rate <- RateOf
  Article <- ArticleOf
  Settled <- Settled4
  SettledOrder <- PaidOf
  Flags <- FlagsOf
  Bills = {f1, f2}
  BilledOrder <- BilledOf
  BillDate <- BillDateOf
  Dates = {d1, d2}
  Buyers = {k1, k2}
  Cashiers = {c1, c2}
  Drawers = {e1, e2}
  TaxRates = {r18, r9}
  Articles = {a1, a2}
  Labels = {h1, h2}
  LabelsOf <- LabelsOfEach
  DrawerDate <- DrawerDateOf
  Holdings <- SomeHoldings
  Tenders <- SomeSums
  Float = 1
  Counts = {3}
  Invoices = {i1}
  Notes = {n1}
  Reverses <- Reversed
  Users = {u1, u2}
  MaxVersion = 2
  MaxSigned = 3
  MaxUnheard = 1
VIEW View
SYMMETRY Symmetry
CHECK_DEADLOCK FALSE
INVARIANT EntriesInv
INVARIANT FneInv
INVARIANT AmountsInv
PROPERTY MarksFollowTheEntry
