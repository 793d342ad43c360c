SPECIFICATION WorkerSpec
CONSTANTS
  o1 = o1
  o2 = o2
  d1 = d1
  d2 = d2
  t1 = t1
  p1 = p1
  Orders = {o1, o2}
  Deliveries = {d1, d2}
  OrderOf <- OneOrder
  Planned = Planned
  Nothing = Nothing
  Jobs = {j1}
  BatchSize = 1
  Threads = {t1}
  Processes = {p1}
  ProcessOf <- OneThread
  Tokens = {k1, k2, k3, k4}
  NoToken = NoToken
  MaxRetries = 3
  TokenTTL = 2
  f1 = f1
  a1 = a1
  Clients = {k5, k6}
  Nobody = Nobody
  None = None
  Excluded = {k6}
  Tickets = {a1, a2}
  Families = {f1}
  Threshold <- ByTwo
  Earned <- PointEach
  Carts <- TwoCarts
  MaxCard = 1
  GiftPoints = 2
CONSTRAINT Within
INVARIANT StaleTokenDoesNotFailPost
INVARIANT CardInv
PROPERTY DeliveryFillsOneReceipt
PROPERTY ImportsEnd
PROPERTY CallsEnd
