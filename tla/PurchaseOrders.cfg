SPECIFICATION OrdersSpec
CONSTANTS
  Scenarios = {"race", "batch"}
  Orders = {o1, o2}
  Users = {u1, u2}
  MaxRetries = 3
  MaxCopies = 3
SYMMETRY Symmetry
INVARIANT TypeOK
INVARIANT SnapshotStillValid
INVARIANT ConfirmedWasAccepted
PROPERTY NoNewCopyAfterAcceptance
PROPERTY ImplementsContract
