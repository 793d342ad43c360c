SPECIFICATION Spec
CONSTANTS
  Threads = {t1, t2}
  Processes = {p1}
  ProcessOf <- OneProcess
  Tokens = {k1, k2, k3, k4, k5}
  NoToken = NoToken
  MaxRetries = 3
  TokenTTL = 1
SYMMETRY TokenSymmetry
INVARIANT TypeOK
INVARIANT HandledWithinTurns
PROPERTY ImplementsRemoteCall
