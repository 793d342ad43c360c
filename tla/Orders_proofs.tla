---------------------------- MODULE Orders_proofs ----------------------------
(***************************************************************************)
(* What is ordered and what is spent: proofs about PurchaseOrders, for any *)
(* sets of orders and requests, and about FoodCredit, LoyaltyPoints and    *)
(* LimitCredit.                                                            *)
(*                                                                         *)
(* Orders: the inductive invariant adds to the properties of the runs what *)
(* they need: rows that do not exist yet are blank, and a request has no   *)
(* target while it is idle.  Every handler that stays in Odoo is reduced   *)
(* once, in OfficeStep, to the commit of one row that keeps the acceptance *)
(* flag and never confirms an order addressed to X3.                       *)
(*                                                                         *)
(* Credit: consumption, what was paid and what was billed are sums over    *)
(* documents, settlements, credits and invoices, carried through each      *)
(* handler.                                                                *)
(***************************************************************************)
EXTENDS PurchaseOrders, MCCredit, Sums

-----------------------------------------------------------------------------
(* Orders sent to SAGE X3.                                                 *)


UnbornIsBlank == \A o \in Orders : order[o].state = "none" => ~order[o].validated

RequestShape ==
    \A u \in Users :
        /\ req[u].accepted \subseteq req[u].targets
        /\ req[u].pc = "idle" => req[u].targets = {}

OrderIInv == /\ TypeOK
        /\ UnbornIsBlank
        /\ RequestShape
        /\ SnapshotStillValid
        /\ AcceptedExistsAtX3
        /\ ConfirmedWasAccepted

\* What the handlers of Office may commit.
OfficeRow(o, row) ==
    /\ row \in OrderRow
    /\ row.state # "none"
    /\ row.validated = order[o].validated
    /\ row.state = "purchase" => row.supplier = "local"

\* Every handler that stays in Odoo commits one such row: create, copy, edit,
\* queue, confirm locally, cancel, reset to draft.
LEMMA OfficeStep ==
    ASSUME TypeOK, UnbornIsBlank, NEW o \in Orders, Office(o)
    PROVE  \E row \in OrderRow : CommitRow(o, row) /\ OfficeRow(o, row)
<1> USE DEF OfficeRow
<1>t. order[o] \in OrderRow
  BY DEF TypeOK
<1>1. CASE Create(o)
  <2>1. PICK s \in Suppliers, c \in Commands, full \in BOOLEAN :
          CommitRow(o, NewRow(s, c, full, FALSE))
    BY <1>1 DEF Create
  <2>2. NewRow(s, c, full, FALSE) \in OrderRow
    BY DEF NewRow, OrderRow, States, Suppliers, Commands
  <2>3. order[o].validated = FALSE
    BY <1>1, <1>t DEF Create, UnbornIsBlank, OrderRow
  <2>4. OfficeRow(o, NewRow(s, c, full, FALSE))
    BY <2>2, <2>3 DEF NewRow
  <2> QED
    BY <2>1, <2>2, <2>4
<1>2. ASSUME NEW p \in Orders, Duplicate(p, o)
      PROVE  \E row \in OrderRow : CommitRow(o, row) /\ OfficeRow(o, row)
  <2>1. order[p] \in OrderRow
    BY DEF TypeOK
  <2> DEFINE row == NewRow("vridi", "normal", order[p].complete, order[p].received)
  <2>2. row \in OrderRow
    BY <2>1 DEF NewRow, OrderRow, States, Suppliers, Commands
  <2>3. order[o].validated = FALSE
    BY <1>2, <1>t DEF Duplicate, UnbornIsBlank, OrderRow
  <2>4. OfficeRow(o, row)
    BY <2>2, <2>3 DEF NewRow
  <2> QED
    BY <1>2, <2>2, <2>4 DEF Duplicate
<1>3. CASE Edit(o)
  <2>1. PICK s \in Suppliers, c \in Commands, full \in BOOLEAN :
          CommitRow(o, [order[o] EXCEPT !.supplier = s, !.command = c, !.complete = full])
    BY <1>3 DEF Edit
  <2> DEFINE row == [order[o] EXCEPT !.supplier = s, !.command = c, !.complete = full]
  <2>2. row \in OrderRow /\ row.state = order[o].state /\ row.validated = order[o].validated
    BY <1>t DEF OrderRow
  <2>3. order[o].state \in {"draft", "sent"}
    BY <1>3 DEF Edit
  <2>4. OfficeRow(o, row)
    BY <2>2, <2>3
  <2> QED
    BY <2>1, <2>2, <2>4
<1>4. CASE action_pending_to_sage_x3(o)
  BY <1>4, <1>t DEF action_pending_to_sage_x3, OrderRow, States
<1>5. CASE button_confirm_local(o)
  BY <1>5, <1>t DEF button_confirm_local, CanConfirmLocal, OrderRow, States
<1>6. CASE button_cancel(o)
  BY <1>6, <1>t DEF button_cancel, OrderRow, States
<1>7. CASE button_draft(o)
  <2> DEFINE keep == order[o].submitted /\ ~ResetsSubmission(order[o])
             row == [order[o] EXCEPT !.state = "draft", !.submitted = keep]
  <2>1. CommitRow(o, row)
    BY <1>7 DEF button_draft
  <2>2. keep \in BOOLEAN
    BY DEF ResetsSubmission
  <2>3. row \in OrderRow /\ row.state = "draft" /\ row.validated = order[o].validated
    <3> HIDE DEF keep
    <3> QED
      BY <1>t, <2>2 DEF OrderRow, States
  <2>4. OfficeRow(o, row)
    BY <2>3
  <2> QED
    BY <2>1, <2>3, <2>4
<1> QED
  BY <1>1, <1>2, <1>3, <1>4, <1>5, <1>6, <1>7 DEF Office

\* The copies X3 holds of an order are counted within the bound, and never
\* decrease.
LEMMA CreateCopiesStep ==
    ASSUME TypeOK, NEW S \in SUBSET Orders, NEW times \in [S -> Nat], CreateCopies(times)
    PROVE  /\ x3' \in [Orders -> 0 .. MaxCopies]
           /\ \A o \in Orders : x3'[o] >= x3[o]
           /\ \A o \in S : times[o] > 0 => x3'[o] > 0
           /\ \A o \in Orders \ S : x3'[o] = x3[o]
BY CopiesAssumption DEF CreateCopies, Saturate, TypeOK

-----------------------------------------------------------------------------
\* Initially there is no order and no request.
LEMMA OrdersFirst == Init => OrderIInv
<1> SUFFICES ASSUME Init PROVE OrderIInv
  OBVIOUS
<1>1. NoRow \in OrderRow /\ NoRow.state = "none" /\ NoRow.validated = FALSE
  BY DEF NoRow, NewRow, OrderRow, States, Suppliers, Commands
<1>2. Idle \in Request /\ Idle.targets = {} /\ Idle.accepted = {}
  BY DEF Idle, Request
<1>3. TypeOK
  BY <1>1, <1>2, CopiesAssumption DEF Init, TypeOK
<1>4. UnbornIsBlank /\ ConfirmedWasAccepted
  BY <1>1 DEF Init, UnbornIsBlank, ConfirmedWasAccepted
<1>5. RequestShape /\ SnapshotStillValid
  BY <1>2 DEF Init, RequestShape, SnapshotStillValid
<1>6. AcceptedExistsAtX3
  BY <1>1, <1>2 DEF Init, AcceptedExistsAtX3
<1> QED
  BY <1>3, <1>4, <1>5, <1>6 DEF OrderIInv

\* A commit of one row by a handler that stays in Odoo keeps the invariant:
\* the requests that read the row before are marked stale for it.
LEMMA OfficeOrderIInv ==
    ASSUME OrderIInv, NEW o \in Orders, NEW row \in OrderRow,
           CommitRow(o, row), OfficeRow(o, row)
    PROVE  OrderIInv'
<1> USE DEF OrderIInv
<1>1. /\ order' = [order EXCEPT ![o] = row]
      /\ req' = [v \in Users |-> IF req[v].pc # "idle"
                                 THEN [req[v] EXCEPT !.stale = @ \union {o}]
                                 ELSE req[v]]
      /\ x3' = x3
  BY DEF CommitRow
<1>2. \A v \in Users :
        /\ req'[v] \in Request
        /\ req'[v].targets = req[v].targets
        /\ req'[v].accepted = req[v].accepted
        /\ req'[v].pc = req[v].pc
        /\ req'[v].kind = req[v].kind
        /\ req[v].stale \subseteq req'[v].stale
        /\ req[v].pc # "idle" => o \in req'[v].stale
  BY <1>1 DEF TypeOK, Request
<1>3. TypeOK'
  BY <1>1, <1>2 DEF TypeOK
<1>4. UnbornIsBlank'
  BY <1>1 DEF UnbornIsBlank, OfficeRow, TypeOK
<1>5. RequestShape'
  BY <1>2 DEF RequestShape
<1>6. SnapshotStillValid'
  <2> SUFFICES ASSUME NEW u \in Users, NEW p \in req'[u].targets \ req'[u].stale
               PROVE  /\ ~order'[p].validated
                      /\ req'[u].kind = "single" => CanSubmitUrgent(p)'
                      /\ req'[u].kind = "batch" => IsPending(p)'
    BY DEF SnapshotStillValid
  <2>1. p \in req[u].targets \ req[u].stale /\ p # o /\ p \in Orders
    BY <1>2 DEF RequestShape, TypeOK, Request
  <2>2. order'[p] = order[p]
    BY <1>1, <2>1 DEF TypeOK
  <2> QED
    BY <1>2, <2>1, <2>2 DEF SnapshotStillValid, CanSubmitUrgent, IsPending
<1>7. AcceptedExistsAtX3'
  BY <1>1, <1>2 DEF AcceptedExistsAtX3, OfficeRow, TypeOK
<1>8. ConfirmedWasAccepted'
  BY <1>1 DEF ConfirmedWasAccepted, OfficeRow, TypeOK
<1> QED
  BY <1>3, <1>4, <1>5, <1>6, <1>7, <1>8

\* Opening a request: the guards have just been read.
LEMMA BeginOrderIInv ==
    ASSUME OrderIInv, NEW u \in Users,
           (\E o \in Orders : BeginUrgent(u, o)) \/ BeginBatch(u)
    PROVE  OrderIInv'
<1> USE DEF OrderIInv
<1>1. PICK k \in {"single", "batch"}, S \in SUBSET Orders :
        /\ req' = [req EXCEPT ![u] = Open(k, S)]
        /\ k = "single" => \A o \in S : CanSubmitUrgent(o)
        /\ k = "batch" => \A o \in S : IsPending(o)
        /\ order' = order /\ x3' = x3
  <2>1. CASE BeginBatch(u)
    <3> DEFINE pending == {o \in Orders : IsPending(o)}
    <3>1. pending \in SUBSET Orders /\ \A o \in pending : IsPending(o)
      OBVIOUS
    <3>2. req' = [req EXCEPT ![u] = Open("batch", pending)] /\ order' = order /\ x3' = x3
      BY <2>1 DEF BeginBatch
    <3> QED
      BY <3>1, <3>2
  <2>2. ASSUME NEW o \in Orders, BeginUrgent(u, o)
        PROVE  /\ req' = [req EXCEPT ![u] = Open("single", {o})]
               /\ CanSubmitUrgent(o)
               /\ order' = order /\ x3' = x3
    BY <2>2 DEF BeginUrgent
  <2>3. CASE \E o \in Orders : BeginUrgent(u, o)
    <3>1. PICK o \in Orders : BeginUrgent(u, o)
      BY <2>3
    <3>2. {o} \in SUBSET Orders /\ \A p \in {o} : CanSubmitUrgent(p)
      BY <3>1, <2>2
    <3> QED
      BY <3>1, <3>2, <2>2
  <2> QED
    BY <2>1, <2>3
<1>2. /\ req'[u].targets = S /\ req'[u].kind = k /\ req'[u].accepted = {}
      /\ req'[u].pc = "ready" /\ req'[u].stale = {} /\ req'[u] \in Request
      /\ \A v \in Users \ {u} : req'[v] = req[v]
  BY <1>1 DEF TypeOK, Open, Idle, Request
<1>3. TypeOK'
  BY <1>1, <1>2 DEF TypeOK
<1>4. SnapshotStillValid'
  BY <1>1, <1>2 DEF SnapshotStillValid, CanSubmitUrgent, IsPending
<1>5. RequestShape' /\ UnbornIsBlank' /\ AcceptedExistsAtX3' /\ ConfirmedWasAccepted'
  BY <1>1, <1>2 DEF RequestShape, UnbornIsBlank, AcceptedExistsAtX3, ConfirmedWasAccepted
<1> QED
  BY <1>3, <1>4, <1>5

\* The HTTP exchange changes X3 and what the request knows, no row of Odoo.
LEMMA PostOrderIInv ==
    ASSUME OrderIInv, NEW u \in Users, PostAnswered(u) \/ PostFailed(u) \/ PostNotBuilt(u)
    PROVE  OrderIInv'
<1> USE DEF OrderIInv
<1> DEFINE S == req[u].targets
<1>s. S \in SUBSET Orders /\ req[u] \in Request
  BY DEF TypeOK, Request
<1>1. CASE PostAnswered(u)
  <2>1. PICK A \in SUBSET S, lost \in [S -> 0 .. MaxRetries - 1] :
          /\ CreateCopies([o \in S |-> lost[o] + (IF o \in A THEN 1 ELSE 0)])
          /\ req' = [req EXCEPT ![u].pc = "answered", ![u].outcome = "answer",
                                ![u].accepted = A]
    BY <1>1 DEF PostAnswered
  <2> DEFINE times == [o \in S |-> lost[o] + (IF o \in A THEN 1 ELSE 0)]
  <2>2. times \in [S -> Nat] /\ \A o \in A : times[o] > 0
    BY RetriesAssumption
  <2>3. /\ x3' \in [Orders -> 0 .. MaxCopies]
        /\ \A o \in Orders : x3'[o] >= x3[o]
        /\ \A o \in A : x3'[o] > 0
    <3> HIDE DEF times
    <3> QED BY <1>s, <2>1, <2>2, CreateCopiesStep DEF times
  <2>4. order' = order
    BY <1>1 DEF PostAnswered
  <2>5. /\ req'[u].targets = S /\ req'[u].kind = req[u].kind /\ req'[u].accepted = A
        /\ req'[u].stale = req[u].stale /\ req'[u].pc = "answered" /\ req'[u] \in Request
        /\ \A v \in Users \ {u} : req'[v] = req[v]
    BY <1>s, <2>1 DEF TypeOK, Request
  <2>6. TypeOK'
    BY <2>1, <2>3, <2>4, <2>5 DEF TypeOK
  <2>7. SnapshotStillValid'
    BY <2>4, <2>5 DEF SnapshotStillValid, CanSubmitUrgent, IsPending
  <2>8. AcceptedExistsAtX3'
    <3>1. \A o \in Orders : x3[o] \in 0 .. MaxCopies /\ x3'[o] \in 0 .. MaxCopies
      BY <2>3 DEF TypeOK
    <3>2. \A v \in Users : req[v].accepted \subseteq Orders
      BY DEF TypeOK, Request
    <3> QED
      BY <2>3, <2>4, <2>5, <3>1, <3>2, CopiesAssumption DEF AcceptedExistsAtX3
  <2> QED
    BY <2>4, <2>5, <2>6, <2>7, <2>8 DEF RequestShape, UnbornIsBlank, ConfirmedWasAccepted
<1>2. CASE PostFailed(u)
  <2>1. PICK times \in [S -> 0 .. MaxRetries] :
          /\ CreateCopies(times)
          /\ req' = [req EXCEPT ![u].pc = "answered", ![u].outcome = "network"]
    BY <1>2 DEF PostFailed
  <2>2. times \in [S -> Nat]
    BY RetriesAssumption
  <2>3. /\ x3' \in [Orders -> 0 .. MaxCopies]
        /\ \A o \in Orders : x3'[o] >= x3[o]
    BY <1>s, <2>1, <2>2, CreateCopiesStep
  <2>4. order' = order
    BY <1>2 DEF PostFailed
  <2>5. /\ req'[u].targets = S /\ req'[u].kind = req[u].kind
        /\ req'[u].accepted = req[u].accepted
        /\ req'[u].stale = req[u].stale /\ req'[u].pc = "answered" /\ req'[u] \in Request
        /\ \A v \in Users \ {u} : req'[v] = req[v]
    BY <1>s, <2>1 DEF TypeOK, Request
  <2>6. TypeOK'
    BY <2>1, <2>3, <2>4, <2>5 DEF TypeOK
  <2>7. SnapshotStillValid'
    BY <2>4, <2>5 DEF SnapshotStillValid, CanSubmitUrgent, IsPending
  <2>8. AcceptedExistsAtX3'
    <3>1. \A o \in Orders : x3[o] \in 0 .. MaxCopies /\ x3'[o] \in 0 .. MaxCopies
      BY <2>3 DEF TypeOK
    <3>2. \A v \in Users : req[v].accepted \subseteq Orders
      BY DEF TypeOK, Request
    <3> QED
      BY <2>3, <2>4, <2>5, <3>1, <3>2, CopiesAssumption DEF AcceptedExistsAtX3
  <2> QED
    BY <2>4, <2>5, <2>6, <2>7, <2>8 DEF RequestShape, UnbornIsBlank, ConfirmedWasAccepted
<1>3. CASE PostNotBuilt(u)
  <2>0. order' = order /\ x3' = x3
    BY <1>3 DEF PostNotBuilt
  <2>1. req' = [req EXCEPT ![u].pc = "answered", ![u].outcome = "payload"]
    BY <1>3 DEF PostNotBuilt
  <2>2. /\ req'[u].targets = S /\ req'[u].kind = req[u].kind
        /\ req'[u].accepted = req[u].accepted
        /\ req'[u].stale = req[u].stale /\ req'[u].pc = "answered" /\ req'[u] \in Request
        /\ \A v \in Users \ {u} : req'[v] = req[v]
    BY <1>s, <2>1 DEF TypeOK, Request
  <2>3. TypeOK'
    BY <2>0, <2>1, <2>2 DEF TypeOK
  <2>4. SnapshotStillValid'
    BY <2>0, <2>2 DEF SnapshotStillValid, CanSubmitUrgent, IsPending
  <2>5. RequestShape' /\ UnbornIsBlank' /\ ConfirmedWasAccepted'
    BY <2>0, <2>2 DEF RequestShape, UnbornIsBlank, ConfirmedWasAccepted
  <2>6. AcceptedExistsAtX3'
    BY <2>0, <2>2 DEF AcceptedExistsAtX3
  <2> QED
    BY <2>3, <2>4, <2>5, <2>6
<1> QED
  BY <1>1, <1>2, <1>3

\* What a request commits, written out: the targets that it writes had not been accepted,
\* and the orders it confirms are among those of them that the answer accepts.
LEMMA RecordStep ==
    ASSUME OrderIInv, NEW u \in Users, Record(u)
    PROVE  \E W \in SUBSET req[u].targets : \E C \in SUBSET (req[u].accepted \intersect W) :
             /\ W \subseteq Orders
             /\ \A o \in W :
                  /\ order'[o] = Recorded(order[o], o \in req[u].accepted, o \in C)
                  /\ ~order[o].validated
                  /\ order[o].state \in {"draft", "sent"}
                  /\ order[o].supplier \in {"vridi", "negoce"}
             /\ \A o \in Orders \ W : order'[o] = order[o]
             /\ order' \in [Orders -> OrderRow]
             /\ req' = [MarkStale(u, W) EXCEPT ![u] = Idle]
             /\ x3' = x3
<1> USE DEF OrderIInv
<1>s. req[u] \in Request /\ req[u].targets \subseteq Orders
  BY DEF TypeOK, Request
<1>0. PICK W \in SUBSET req[u].targets : \E C \in SUBSET (req[u].accepted \intersect W) :
        /\ NoConflict(u, W)
        /\ order' = [o \in Orders |-> IF o \in W
                                      THEN Recorded(order[o], o \in req[u].accepted, o \in C)
                                      ELSE order[o]]
        /\ req' = [MarkStale(u, W) EXCEPT ![u] = Idle]
  BY DEF Record
<1>1. PICK C \in SUBSET (req[u].accepted \intersect W) :
        /\ NoConflict(u, W)
        /\ order' = [o \in Orders |-> IF o \in W
                                      THEN Recorded(order[o], o \in req[u].accepted, o \in C)
                                      ELSE order[o]]
        /\ req' = [MarkStale(u, W) EXCEPT ![u] = Idle]
  BY <1>0
<1>2. \A o \in W :
        /\ ~order[o].validated
        /\ order[o].state \in {"draft", "sent"}
        /\ order[o].supplier \in {"vridi", "negoce"}
  BY <1>s, <1>1 DEF NoConflict, SnapshotStillValid, CanSubmitUrgent, IsPending, Request
<1>4. order' \in [Orders -> OrderRow]
  <2> SUFFICES ASSUME NEW o \in Orders
               PROVE  (IF o \in W
                       THEN Recorded(order[o], o \in req[u].accepted, o \in C)
                       ELSE order[o]) \in OrderRow
    BY <1>1
  <2>1. order[o] \in OrderRow /\ (o \in req[u].accepted) \in BOOLEAN /\ (o \in C) \in BOOLEAN
    BY DEF TypeOK
  <2>2. Recorded(order[o], o \in req[u].accepted, o \in C) \in OrderRow
    BY <2>1 DEF Recorded, OrderRow, States
  <2> QED
    BY <2>1, <2>2
<1>5. x3' = x3
  BY DEF Record
<1> QED
  BY <1>s, <1>1, <1>2, <1>4, <1>5

\* The commit of a submission keeps the invariant.
LEMMA RecordOrderIInv ==
    ASSUME OrderIInv, NEW u \in Users, Record(u)
    PROVE  OrderIInv'
<1> USE DEF OrderIInv
<1> DEFINE A == req[u].accepted
<1>0. PICK S \in SUBSET req[u].targets : \E C \in SUBSET (A \intersect S) :
             /\ S \subseteq Orders
             /\ \A o \in S :
                  /\ order'[o] = Recorded(order[o], o \in A, o \in C)
                  /\ ~order[o].validated
                  /\ order[o].state \in {"draft", "sent"}
                  /\ order[o].supplier \in {"vridi", "negoce"}
             /\ \A o \in Orders \ S : order'[o] = order[o]
             /\ order' \in [Orders -> OrderRow]
             /\ req' = [MarkStale(u, S) EXCEPT ![u] = Idle]
             /\ x3' = x3
  BY RecordStep
<1>1. PICK C \in SUBSET (A \intersect S) :
             /\ S \subseteq Orders
             /\ \A o \in S :
                  /\ order'[o] = Recorded(order[o], o \in A, o \in C)
                  /\ ~order[o].validated
                  /\ order[o].state \in {"draft", "sent"}
                  /\ order[o].supplier \in {"vridi", "negoce"}
             /\ \A o \in Orders \ S : order'[o] = order[o]
             /\ order' \in [Orders -> OrderRow]
             /\ req' = [MarkStale(u, S) EXCEPT ![u] = Idle]
             /\ x3' = x3
  BY <1>0
<1>2. /\ req'[u] = Idle
      /\ \A v \in Users \ {u} :
           /\ req'[v] \in Request
           /\ req'[v].targets = req[v].targets
           /\ req'[v].accepted = req[v].accepted
           /\ req'[v].pc = req[v].pc
           /\ req'[v].kind = req[v].kind
           /\ req[v].stale \subseteq req'[v].stale
           /\ req[v].pc # "idle" => S \subseteq req'[v].stale
  <2> DEFINE marked == MarkStale(u, S)
  <2>1. \A v \in Users \ {u} :
          marked[v] = IF req[v].pc # "idle"
                      THEN [req[v] EXCEPT !.stale = @ \union S]
                      ELSE req[v]
    BY DEF MarkStale
  <2>2. \A v \in Users \ {u} :
          /\ marked[v] \in Request
          /\ marked[v].targets = req[v].targets
          /\ marked[v].accepted = req[v].accepted
          /\ marked[v].pc = req[v].pc
          /\ marked[v].kind = req[v].kind
          /\ req[v].stale \subseteq marked[v].stale
          /\ req[v].pc # "idle" => S \subseteq marked[v].stale
    <3> HIDE DEF marked
    <3> SUFFICES ASSUME NEW v \in Users \ {u}
                 PROVE  /\ marked[v] \in Request
                        /\ marked[v].targets = req[v].targets
                        /\ marked[v].accepted = req[v].accepted
                        /\ marked[v].pc = req[v].pc
                        /\ marked[v].kind = req[v].kind
                        /\ req[v].stale \subseteq marked[v].stale
                        /\ req[v].pc # "idle" => S \subseteq marked[v].stale
      OBVIOUS
    <3>1. req[v] \in Request /\ S \subseteq Orders
      BY <1>1 DEF TypeOK
    <3>2. CASE req[v].pc # "idle"
      <4>1. marked[v] = [req[v] EXCEPT !.stale = @ \union S]
        BY <2>1, <3>2
      <4>2. req[v].stale \union S \in SUBSET Orders
        BY <3>1 DEF Request
      <4> QED
        BY <3>1, <3>2, <4>1, <4>2 DEF Request
    <3>3. CASE req[v].pc = "idle"
      BY <2>1, <3>1, <3>3
    <3> QED
      BY <3>2, <3>3
  <2>3. DOMAIN marked = Users
    BY DEF MarkStale
  <2>4. req'[u] = Idle /\ \A v \in Users \ {u} : req'[v] = marked[v]
    <3>1. req' = [marked EXCEPT ![u] = Idle]
      BY <1>1
    <3> HIDE DEF marked
    <3> QED
      BY <2>3, <3>1
  <2> HIDE DEF marked
  <2> QED
    BY <2>2, <2>4
<1>3. \A o \in S : /\ order'[o].validated <=> o \in A
                   /\ order'[o].supplier = order[o].supplier
                   /\ order'[o].state = IF o \in C THEN "purchase" ELSE order[o].state
  <2> SUFFICES ASSUME NEW o \in S
               PROVE  /\ order'[o].validated <=> o \in A
                      /\ order'[o].supplier = order[o].supplier
                      /\ order'[o].state = IF o \in C THEN "purchase" ELSE order[o].state
    OBVIOUS
  <2>1. order[o] \in OrderRow
    BY <1>1 DEF TypeOK
  <2>2. order'[o] = Recorded(order[o], o \in A, o \in C)
    BY <1>1
  <2> HIDE DEF A
  <2> QED
    BY <2>1, <2>2 DEF Recorded, OrderRow
<1>4. TypeOK'
  <2>1. Idle \in Request
    BY DEF Idle, Request
  <2>2. req' \in [Users -> Request]
    <3>1. \A v \in Users : req'[v] \in Request
      BY <1>2, <2>1
    <3>2. req' = [v \in Users |-> req'[v]]
      BY <1>1 DEF MarkStale
    <3> QED
      BY <3>1, <3>2
  <2> QED
    BY <1>1, <2>2 DEF TypeOK
<1>5. UnbornIsBlank'
  BY <1>1, <1>3 DEF UnbornIsBlank
<1>6. RequestShape'
  BY <1>2 DEF RequestShape, Idle
<1>7. SnapshotStillValid'
  <2> SUFFICES ASSUME NEW v \in Users, NEW p \in req'[v].targets \ req'[v].stale
               PROVE  /\ ~order'[p].validated
                      /\ req'[v].kind = "single" => CanSubmitUrgent(p)'
                      /\ req'[v].kind = "batch" => IsPending(p)'
    BY DEF SnapshotStillValid
  <2>1. v # u
    BY <1>2 DEF Idle
  <2>2. p \in req[v].targets \ req[v].stale /\ p \notin S /\ p \in Orders
    BY <1>2, <2>1 DEF RequestShape, TypeOK, Request
  <2>3. order'[p] = order[p]
    BY <1>1, <2>2
  <2> QED
    BY <1>2, <2>1, <2>2, <2>3 DEF SnapshotStillValid, CanSubmitUrgent, IsPending
<1>8. AcceptedExistsAtX3'
  <2>1. \A o \in Orders : order'[o].validated => x3'[o] > 0
    BY <1>1, <1>3 DEF AcceptedExistsAtX3
  <2>2. \A v \in Users : \A o \in req'[v].accepted : x3'[o] > 0
    <3>1. \A o \in req'[u].accepted : FALSE
      BY <1>2 DEF Idle
    <3>2. \A v \in Users \ {u} : req'[v].accepted = req[v].accepted
      BY <1>2
    <3> QED
      BY <1>1, <3>1, <3>2 DEF AcceptedExistsAtX3
  <2> QED
    BY <2>1, <2>2 DEF AcceptedExistsAtX3
<1>9. ConfirmedWasAccepted'
  BY <1>1, <1>3 DEF ConfirmedWasAccepted
<1> QED
  BY <1>4, <1>5, <1>6, <1>7, <1>8, <1>9

\* A request that gives up leaves everything else as it was.
LEMMA GiveUpIInv ==
    ASSUME OrderIInv, NEW u \in Users, Discard(u) \/ Conflict(u) \/ Crash(u)
    PROVE  OrderIInv'
<1> USE DEF OrderIInv
<1>1. req' = [req EXCEPT ![u] = Idle] /\ order' = order /\ x3' = x3
  BY DEF Discard, Conflict, Crash
<1>2. req'[u] = Idle /\ \A v \in Users \ {u} : req'[v] = req[v]
  BY <1>1 DEF TypeOK
<1>3. TypeOK'
  BY <1>1 DEF TypeOK, Idle, Request
<1>4. SnapshotStillValid'
  BY <1>1, <1>2 DEF SnapshotStillValid, CanSubmitUrgent, IsPending, Idle
<1> QED
  BY <1>1, <1>2, <1>3, <1>4 DEF RequestShape, UnbornIsBlank, AcceptedExistsAtX3,
     ConfirmedWasAccepted, Idle

\* Every step keeps the invariant.
LEMMA NextOrderIInv == OrderIInv /\ [Next]_orderVars => OrderIInv'
<1> SUFFICES ASSUME OrderIInv, [Next]_orderVars PROVE OrderIInv'
  OBVIOUS
<1>1. ASSUME NEW o \in Orders, Office(o) PROVE OrderIInv'
  BY <1>1, OfficeStep, OfficeOrderIInv DEF OrderIInv
<1>2. ASSUME NEW u \in Users, Submission(u) PROVE OrderIInv'
  BY <1>2, BeginOrderIInv, PostOrderIInv, RecordOrderIInv, GiveUpIInv DEF Submission
<1>3. CASE UNCHANGED orderVars
  BY <1>3 DEF orderVars, OrderIInv, TypeOK, UnbornIsBlank, RequestShape, SnapshotStillValid,
     AcceptedExistsAtX3, ConfirmedWasAccepted, CanSubmitUrgent, IsPending
<1> QED
  BY <1>1, <1>2, <1>3 DEF Next

\* The inductive invariant holds in every reachable state.
THEOREM OrdersAreInvariant == Spec => []OrderIInv
BY OrdersFirst, NextOrderIInv, PTL DEF Spec

\* Every variable keeps its type.
THEOREM OrdersAreTyped == Spec => []TypeOK
<1>1. OrderIInv => TypeOK
  BY DEF OrderIInv
<1> QED
  BY <1>1, OrdersAreInvariant, PTL

\* A submission handler's guards hold on its targets until its own commit.
THEOREM SnapshotsStayValid == Spec => []SnapshotStillValid
<1>1. OrderIInv => SnapshotStillValid
  BY DEF OrderIInv
<1> QED
  BY <1>1, OrdersAreInvariant, PTL

\* Orders shown as accepted exist at X3, and confirmed X3 orders are accepted.
THEOREM NoPurchaseWithoutX3 == Spec => [](AcceptedExistsAtX3 /\ ConfirmedWasAccepted)
<1>1. OrderIInv => AcceptedExistsAtX3 /\ ConfirmedWasAccepted
  BY DEF OrderIInv
<1> QED
  BY <1>1, OrdersAreInvariant, PTL

-----------------------------------------------------------------------------
(* Action properties and the refinement, from the same invariant.          *)

\* Neither a copy at X3 nor an acceptance comes from the handlers of Office.
LEMMA OfficeFrame ==
    ASSUME OrderIInv, NEW o \in Orders, Office(o)
    PROVE  /\ x3' = x3
           /\ \A p \in Orders : order'[p].validated <=> order[p].validated
           /\ \A p \in Orders \ {o} : order'[p] = order[p]
           /\ order'[o].state = "purchase" => order'[o].supplier = "local"
<1>1. PICK row \in OrderRow : CommitRow(o, row) /\ OfficeRow(o, row)
  BY OfficeStep DEF OrderIInv
<1> QED
  BY <1>1 DEF CommitRow, OfficeRow, OrderIInv, TypeOK

\* A post only adds copies of the targets of its request.
LEMMA PostFrame ==
    ASSUME OrderIInv, NEW u \in Users, PostAnswered(u) \/ PostFailed(u) \/ PostNotBuilt(u)
    PROVE  /\ order' = order
           /\ x3' \in [Orders -> 0 .. MaxCopies]
           /\ \A o \in Orders : x3'[o] >= x3[o]
           /\ \A o \in Orders \ req[u].targets : x3'[o] = x3[o]
<1> USE DEF OrderIInv
<1> DEFINE S == req[u].targets
<1>s. S \in SUBSET Orders
  BY DEF TypeOK, Request
<1>1. CASE PostAnswered(u)
  <2>1. PICK times \in [S -> Nat] : CreateCopies(times)
    <3>1. PICK A \in SUBSET S, lost \in [S -> 0 .. MaxRetries - 1] :
            CreateCopies([o \in S |-> lost[o] + (IF o \in A THEN 1 ELSE 0)])
      BY <1>1 DEF PostAnswered
    <3>2. [o \in S |-> lost[o] + (IF o \in A THEN 1 ELSE 0)] \in [S -> Nat]
      BY RetriesAssumption
    <3> QED
      BY <3>1, <3>2
  <2> QED
    BY <1>s, <1>1, <2>1, CreateCopiesStep DEF PostAnswered
<1>2. CASE PostFailed(u)
  <2>1. PICK times \in [S -> 0 .. MaxRetries] : CreateCopies(times)
    BY <1>2 DEF PostFailed
  <2>2. times \in [S -> Nat]
    BY RetriesAssumption
  <2> QED
    BY <1>s, <1>2, <2>1, <2>2, CreateCopiesStep DEF PostFailed
<1>3. CASE PostNotBuilt(u)
  BY <1>3 DEF PostNotBuilt, TypeOK
<1> QED
  BY <1>1, <1>2, <1>3

\* An order Odoo knows to be accepted is created again at X3 only by a request
\* that was in flight when the acceptance was committed.
THEOREM AcceptedNotSentAgain == Spec => NoNewCopyAfterAcceptance
<1>1. ASSUME OrderIInv, [Next]_orderVars, NEW o \in Orders, order[o].validated, x3'[o] > x3[o]
      PROVE  \E u \in Users : o \in req[u].targets \intersect req[u].stale
  <2>0. x3[o] \in Nat
    BY <1>1 DEF OrderIInv, TypeOK
  <2>1. ~(x3' = x3)
    BY <1>1, <2>0
  <2>2. PICK u \in Users : PostAnswered(u) \/ PostFailed(u) \/ PostNotBuilt(u)
    <3>1. ASSUME NEW p \in Orders, Office(p) PROVE FALSE
      BY <1>1, <2>1, <3>1, OfficeFrame
    <3>2. CASE UNCHANGED orderVars
      BY <2>1, <3>2 DEF orderVars
    <3> QED
      BY <1>1, <2>1, <3>1, <3>2 DEF Next, Submission, BeginUrgent, BeginBatch,
         Record, Discard, Conflict, Crash
  <2>3. o \in req[u].targets
    BY <1>1, <2>0, <2>2, PostFrame
  <2>4. o \in req[u].stale
    BY <1>1, <2>3 DEF OrderIInv, SnapshotStillValid
  <2> QED
    BY <2>3, <2>4
<1>2. OrderIInv /\ [Next]_orderVars
        => [\A o \in Orders :
              order[o].validated /\ x3'[o] > x3[o]
                => \E u \in Users : o \in req[u].targets \intersect req[u].stale]_orderVars
  BY <1>1
<1> QED
  BY <1>2, OrdersAreInvariant, PTL DEF Spec, NoNewCopyAfterAcceptance

\* One step never withdraws an acceptance.
LEMMA AcceptanceStep ==
    ASSUME OrderIInv, [Next]_orderVars, NEW o \in Orders, order[o].validated
    PROVE  order'[o].validated
<1>1. ASSUME NEW p \in Orders, Office(p) PROVE order'[o].validated
  BY <1>1, OfficeFrame
<1>2. ASSUME NEW u \in Users, Record(u) PROVE order'[o].validated
  BY <1>2, RecordStep
<1>3. ASSUME NEW u \in Users, PostAnswered(u) \/ PostFailed(u) \/ PostNotBuilt(u)
      PROVE order'[o].validated
  BY <1>3, PostFrame
<1>4. CASE UNCHANGED orderVars
  BY <1>4 DEF orderVars
<1> QED
  BY <1>1, <1>2, <1>3, <1>4 DEF Next, Submission, BeginUrgent, BeginBatch,
     Discard, Conflict, Crash

\* The acceptance recorded for an order is never taken back.
THEOREM AcceptanceStays == Spec => AcceptanceIsFinal
<1>1. OrderIInv /\ [Next]_orderVars
        => [\A o \in Orders : order[o].validated => order'[o].validated]_orderVars
  BY AcceptanceStep
<1> QED
  BY <1>1, OrdersAreInvariant, PTL DEF Spec, AcceptanceIsFinal

-----------------------------------------------------------------------------
\* The three sets of the refinement mapping.
Created == {o \in Orders : x3[o] > 0}
Acknowledged == {o \in Orders : order[o].validated}
Confirmed == {o \in Orders : order[o].state = "purchase" /\ order[o].supplier # "local"}

\* A handler of Office is a withdrawal or invisible.
LEMMA OfficeRefines ==
    ASSUME OrderIInv, NEW o \in Orders, Office(o)
    PROVE  [Contract!ContractNext]_Contract!contractVars
<1>1. Created' = Created /\ Acknowledged' = Acknowledged
  BY OfficeFrame DEF Created, Acknowledged
<1>2. Confirmed' = Confirmed \/ (o \in Confirmed /\ Confirmed' = Confirmed \ {o})
  BY OfficeFrame DEF Confirmed
<1> QED
  BY <1>1, <1>2 DEF Contract!ContractNext, Contract!Withdraw, Contract!contractVars,
     Created, Acknowledged, Confirmed

\* A post is the creation of some orders at X3.
LEMMA PostRefines ==
    ASSUME OrderIInv, NEW u \in Users, PostAnswered(u) \/ PostFailed(u) \/ PostNotBuilt(u)
    PROVE  [Contract!ContractNext]_Contract!contractVars
<1>1. Acknowledged' = Acknowledged /\ Confirmed' = Confirmed
  BY PostFrame DEF Acknowledged, Confirmed
<1>2. \A o \in Orders : x3[o] \in Nat /\ x3'[o] \in Nat /\ x3'[o] >= x3[o]
  BY PostFrame DEF OrderIInv, TypeOK
<1>3. Created' = Created \union Created'
  BY <1>2 DEF Created
<1>4. Created' \in SUBSET Orders
  BY DEF Created
<1> QED
  BY <1>1, <1>3, <1>4 DEF Contract!ContractNext, Contract!CreateAtX3, Created,
     Acknowledged, Confirmed

\* A committed submission acknowledges the accepted targets that it writes, which X3
\* holds and nobody had acknowledged, and confirms some of them.
LEMMA RecordRefines ==
    ASSUME OrderIInv, NEW u \in Users, Record(u)
    PROVE  [Contract!ContractNext]_Contract!contractVars
<1>0. PICK S \in SUBSET req[u].targets : \E C \in SUBSET (req[u].accepted \intersect S) :
             /\ S \subseteq Orders
             /\ \A o \in S :
                  /\ order'[o] = Recorded(order[o], o \in req[u].accepted, o \in C)
                  /\ ~order[o].validated
                  /\ order[o].state \in {"draft", "sent"}
                  /\ order[o].supplier \in {"vridi", "negoce"}
             /\ \A o \in Orders \ S : order'[o] = order[o]
             /\ order' \in [Orders -> OrderRow]
             /\ x3' = x3
  BY RecordStep
<1>1. PICK C \in SUBSET (req[u].accepted \intersect S) :
             /\ S \subseteq Orders
             /\ \A o \in S :
                  /\ order'[o] = Recorded(order[o], o \in req[u].accepted, o \in C)
                  /\ ~order[o].validated
                  /\ order[o].state \in {"draft", "sent"}
                  /\ order[o].supplier \in {"vridi", "negoce"}
             /\ \A o \in Orders \ S : order'[o] = order[o]
             /\ order' \in [Orders -> OrderRow]
             /\ x3' = x3
  BY <1>0
<1> DEFINE A == req[u].accepted \intersect S
<1>2. A \subseteq S
  OBVIOUS
<1>3. \A o \in S : /\ order'[o].validated <=> o \in A
                   /\ order'[o].supplier = order[o].supplier
                   /\ order'[o].state = IF o \in C THEN "purchase" ELSE order[o].state
  <2> SUFFICES ASSUME NEW o \in S
               PROVE  /\ order'[o].validated <=> o \in A
                      /\ order'[o].supplier = order[o].supplier
                      /\ order'[o].state = IF o \in C THEN "purchase" ELSE order[o].state
    OBVIOUS
  <2>1. order[o] \in OrderRow
    BY <1>1 DEF OrderIInv, TypeOK
  <2> QED
    BY <1>1, <2>1 DEF Recorded, OrderRow
<1>4. Created' = Created
  BY <1>1 DEF Created
<1>5. A \subseteq Created \ Acknowledged
  BY <1>1, <1>2 DEF Created, Acknowledged, OrderIInv, AcceptedExistsAtX3
<1>6. Acknowledged' = Acknowledged \union A
  BY <1>1, <1>2, <1>3 DEF Acknowledged
<1>7. Confirmed' = Confirmed \union C
  BY <1>1, <1>2, <1>3 DEF Confirmed
<1>8. A \in SUBSET Orders
  BY <1>1, <1>2
<1> QED
  BY <1>4, <1>5, <1>6, <1>7, <1>8 DEF Contract!ContractNext, Contract!Acknowledge,
     Created, Acknowledged, Confirmed

\* The submission handlers, with their retries, conflicts and crashes, keep
\* the promise of OrderContract.
THEOREM OrdersKeepTheContract == Spec => ImplementsContract
<1>1. Init => Contract!ContractInit
  BY DEF Init, NoRow, NewRow, Contract!ContractInit
<1>2. OrderIInv /\ [Next]_orderVars => [Contract!ContractNext]_Contract!contractVars
  <2> SUFFICES ASSUME OrderIInv, [Next]_orderVars
               PROVE  [Contract!ContractNext]_Contract!contractVars
    OBVIOUS
  <2>1. ASSUME NEW o \in Orders, Office(o)
        PROVE  [Contract!ContractNext]_Contract!contractVars
    BY <2>1, OfficeRefines
  <2>2. ASSUME NEW u \in Users, Submission(u)
        PROVE  [Contract!ContractNext]_Contract!contractVars
    <3>1. CASE order' = order /\ x3' = x3
      BY <3>1 DEF Contract!contractVars
    <3> QED
      BY <2>2, <3>1, PostRefines, RecordRefines DEF Submission, BeginUrgent, BeginBatch,
         Discard, Conflict, Crash
  <2>3. CASE UNCHANGED orderVars
    BY <2>3 DEF orderVars, Contract!contractVars
  <2> QED
    BY <2>1, <2>2, <2>3 DEF Next
<1> QED
  BY <1>1, <1>2, OrdersAreInvariant, PTL DEF Spec, ImplementsContract, Contract!ContractSpec


-----------------------------------------------------------------------------
(* The credit limit of a client.                                           *)

\* A client without limit owes nothing, and no sheet is loaded.
ClosedIsBlank == ~limit.open => limit = NoLimit /\ loaded = Unread

\* A document is counted while it stands on account, and otherwise only when the mark came
\* with a copy.
MarkFollows(r) ==
    IF r.state = "posted" /\ r.credit THEN r.counted /\ ~r.inherited /\ limit.open
    ELSE r.counted => r.inherited

\* A settlement is linked while it is in force.
LinkFollows(r) ==
    /\ r.linked <=> r.state = "live"
    /\ r.linked => limit.open

\* The marks of documents and settlements, as long as every change was made for one.
MarksFollow ==
    direct # Lost =>
        /\ \A d \in Documents : MarkFollows(document[d])
        /\ \A p \in Payments : LinkFollows(payment[p])

LimitIInv == LimitInv /\ ClosedIsBlank /\ MarksFollow

\* Every handler keeps the types.
LEMMA LimitTypeStep ==
    ASSUME LimitTypeOK, LimitNext
    PROVE  LimitTypeOK'
<1> USE AmountsAssumption DEF LimitTypeOK
<1> DEFINE Types == LimitTypeOK'
<1>1. /\ NoLimit \in Limit /\ NoDocument \in Document /\ NoPayment \in Payment
      /\ 0 \in Balances /\ Dues \subseteq Int /\ Balances \subseteq Int /\ Ceilings \subseteq Int
  BY DEF NoLimit, Limit, NoDocument, Document, NoPayment, Payment, Dues, Balances, Ceilings
<1>2. ASSUME NEW a \in Int, Consume(a) PROVE limit' \in Limit
  BY <1>2 DEF Consume, Limit
<1>3. ASSUME NEW a \in Int, Direct(a) PROVE direct' \in Balances \union {Lost}
  BY <1>3 DEF Direct
<1>4. ASSUME NEW d \in Documents, NEW state \in {"draft", "cancel"}, Retire(d, state)
      PROVE  limit' \in Limit /\ document' \in [Documents -> Document]
             /\ direct' \in Balances \union {Lost}
  <2>1. document[d].amount \in Int
    BY <1>1 DEF Document
  <2>2. document' \in [Documents -> Document]
    BY <1>4 DEF Retire, Document
  <2> HIDE DEF LimitTypeOK
  <2>3. -document[d].amount \in Int
    BY <2>1
  <2> QED
    BY <1>2, <1>4, <2>2, <2>3 DEF Retire, LimitTypeOK
<1>5. ASSUME NEW p \in Payments, Restore(p)
      PROVE  limit' \in Limit /\ payment' \in [Payments -> Payment]
             /\ direct' \in Balances \union {Lost}
  <2>1. payment[p].amount \in Int
    BY <1>1 DEF Payment
  <2>2. payment' \in [Payments -> Payment]
    BY <1>5 DEF Restore, Payment
  <2>3. direct' \in Balances \union {Lost}
    BY <1>5 DEF Restore
  <2> QED
    BY <1>2, <1>5, <2>1, <2>2, <2>3 DEF Restore
<1>6. ASSUME NEW a \in Dues, PayAtTill(a) \/ PayAtTill(-a) PROVE Types
  BY <1>1, <1>2, <1>3, <1>6 DEF PayAtTill
<1>7. ASSUME NEW d \in Documents, CreateDocument(d) PROVE Types
  <2>1. PICK c \in BOOLEAN, a \in Dues :
          document' = [document EXCEPT ![d] =
              [NoDocument EXCEPT !.state = "draft", !.credit = c, !.amount = a]]
    BY <1>7 DEF CreateDocument
  <2>2. [NoDocument EXCEPT !.state = "draft", !.credit = c, !.amount = a] \in Document
    BY DEF NoDocument, Document
  <2> QED
    BY <1>7, <2>1, <2>2 DEF CreateDocument
<1>8. ASSUME NEW d \in Documents, EditDocument(d) PROVE Types
  <2>1. PICK c \in BOOLEAN, a \in Dues :
          document' = [document EXCEPT ![d].credit = c, ![d].amount = a]
    BY <1>8 DEF EditDocument
  <2>2. document' \in [Documents -> Document]
    BY <2>1 DEF Document
  <2> QED
    BY <1>8, <2>2 DEF EditDocument
<1>9. ASSUME NEW d \in Documents, NEW o \in Documents, CopyDocument(o, d) PROVE Types
  <2>1. document[o] \in Document
    OBVIOUS
  <2>2. [document[o] EXCEPT !.state = "draft", !.inherited = document[o].counted] \in Document
    BY <2>1 DEF Document
  <2> QED
    BY <1>9, <2>2 DEF CopyDocument
<1>10. ASSUME NEW d \in Documents, action_post(d) PROVE Types
  <2>1. document[d].amount \in Int
    BY <1>1 DEF Document
  <2>2. document' \in [Documents -> Document]
    BY <1>10 DEF action_post, Document
  <2> QED
    BY <1>2, <1>10, <2>1, <2>2 DEF action_post
<1>11. ASSUME NEW d \in Documents, DraftDocument(d) \/ CancelDocument(d) PROVE Types
  <2>1. CASE Retire(d, "draft") /\ UNCHANGED <<payment, loaded>>
    BY <1>4, <2>1
  <2>2. CASE Retire(d, "cancel") /\ UNCHANGED <<payment, loaded>>
    BY <1>4, <2>2
  <2>3. CASE /\ document' = [document EXCEPT ![d].state = "cancel"]
             /\ UNCHANGED <<limit, direct, payment, loaded>>
    BY <2>3 DEF Document
  <2> QED
    BY <1>11, <2>1, <2>2, <2>3 DEF DraftDocument, CancelDocument
<1>12. ASSUME NEW p \in Payments, RegisterPayment(p) PROVE Types
  <2>1. PICK a \in Dues : /\ Consume(-a)
                          /\ payment' = [payment EXCEPT ![p] =
                               [state |-> "live", linked |-> TRUE, amount |-> a]]
    BY <1>12 DEF RegisterPayment
  <2>2. payment' \in [Payments -> Payment]
    BY <2>1 DEF Payment
  <2> QED
    BY <1>1, <1>2, <1>12, <2>1, <2>2 DEF RegisterPayment
<1>13. ASSUME NEW p \in Payments, action_cancel(p) \/ _process_cancel_payment(p) PROVE Types
  BY <1>5, <1>13 DEF action_cancel, _process_cancel_payment
<1>14. ASSUME NEW p \in Payments, RepostPayment(p) \/ Unlink(p) PROVE Types
  <2>1. payment' \in [Payments -> Payment]
    <3>1. payment[p] \in Payment
      OBVIOUS
    <3>2. \/ payment' = [payment EXCEPT ![p].state = "live"]
          \/ payment' = [payment EXCEPT ![p].linked = FALSE]
      BY <1>14 DEF RepostPayment, Unlink
    <3>3. PICK f \in BOOLEAN : f = FALSE
      OBVIOUS
    <3>4. CASE payment' = [payment EXCEPT ![p].state = "live"]
      BY <3>1, <3>4 DEF Payment
    <3>5. CASE payment' = [payment EXCEPT ![p].linked = f]
      <4>1. [payment[p] EXCEPT !.linked = f] \in Payment
        BY <3>1, <3>3 DEF Payment
      <4> QED
        BY <3>5, <4>1
    <3> QED
      BY <3>2, <3>3, <3>4, <3>5
  <2> QED
    BY <1>14, <2>1 DEF RepostPayment, Unlink
<1>15. CASE WriteClient
  BY <1>15, <1>1 DEF WriteClient, Limit, NoLimit
<1>16. CASE DeleteLimit
  BY <1>16, <1>1 DEF DeleteLimit
<1>17. CASE _process_limit_update
  BY <1>17 DEF _process_limit_update, Limit
<1>18. CASE _process_conso_update
  BY <1>18, <1>1, <1>2, <1>3 DEF _process_conso_update
<1>19. CASE LoadLimits
  BY <1>19 DEF LoadLimits, Limit, Sheet
<1>20. CASE ConfirmLimits
  BY <1>20 DEF ConfirmLimits
<1>21. CASE TypeLimit
  <2>1. PICK n \in Balances, c \in Ceilings :
           /\ limit.typed + n - limit.consumed \in Balances
           /\ limit' = [limit EXCEPT !.consumed = n, !.ceiling = c,
                                     !.typed = @ + n - limit.consumed]
    BY <1>21 DEF TypeLimit
  <2>2. limit' \in Limit
    BY <2>1 DEF Limit
  <2> QED
    BY <1>21, <2>2 DEF TypeLimit
<1> QED
  BY <1>6, <1>7, <1>8, <1>9, <1>10, <1>11, <1>12, <1>13, <1>14, <1>15, <1>16, <1>17,
     <1>18, <1>19, <1>20, <1>21 DEF LimitNext

LEMMA MarksStep ==
    ASSUME LimitTypeOK, ClosedIsBlank, MarksFollow, LimitNext
    PROVE  ClosedIsBlank' /\ MarksFollow'
<1> USE AmountsAssumption DEF LimitTypeOK
<1> DEFINE Goal == ClosedIsBlank' /\ MarksFollow'
<1>1. ASSUME NEW a, Consume(a)
      PROVE  limit'.open = limit.open
  BY <1>1 DEF Consume, Limit
<1>2. ASSUME NEW a, Direct(a), direct' # Lost PROVE direct # Lost
  BY <1>2 DEF Direct
<1>3. ASSUME limit'.open = limit.open, direct' # Lost => direct # Lost,
             limit.open \/ limit' = limit, loaded' = loaded,
             UNCHANGED <<document, payment>>
      PROVE  Goal
  BY <1>3 DEF ClosedIsBlank, MarksFollow, MarkFollows, LinkFollows
<1>4. ASSUME NEW d \in Documents, limit'.open = limit.open, limit.open \/ limit' = limit,
             loaded' = loaded, payment' = payment,
             direct' # Lost =>
                /\ direct # Lost
                /\ \A o \in Documents \ {d} : document'[o] = document[o]
                /\ MarkFollows(document'[d])
      PROVE  Goal
  <2>1. ClosedIsBlank'
    BY <1>4 DEF ClosedIsBlank
  <2>2. ASSUME direct' # Lost
        PROVE  /\ \A o \in Documents : MarkFollows(document[o])'
               /\ \A p \in Payments : LinkFollows(payment[p])'
    BY <1>4, <2>2 DEF MarksFollow, MarkFollows, LinkFollows
  <2> QED
    BY <2>1, <2>2 DEF MarksFollow
<1>5. ASSUME NEW p \in Payments, limit'.open = limit.open, limit.open \/ limit' = limit,
             loaded' = loaded, document' = document,
             direct' # Lost =>
                /\ direct # Lost
                /\ \A q \in Payments \ {p} : payment'[q] = payment[q]
                /\ LinkFollows(payment'[p])
      PROVE  Goal
  <2>1. ClosedIsBlank'
    BY <1>5 DEF ClosedIsBlank
  <2>2. ASSUME direct' # Lost
        PROVE  /\ \A o \in Documents : MarkFollows(document[o])'
               /\ \A q \in Payments : LinkFollows(payment[q])'
    BY <1>5, <2>2 DEF MarksFollow, MarkFollows, LinkFollows
  <2> QED
    BY <2>1, <2>2 DEF MarksFollow
<1>6. ASSUME NEW a \in Dues, PayAtTill(a) \/ PayAtTill(-a) PROVE Goal
  <2>1. PICK b : Fits(b) /\ Consume(b) /\ Direct(b) /\ UNCHANGED <<document, payment, loaded>>
    BY <1>6 DEF PayAtTill
  <2> QED
    BY <1>1, <1>2, <1>3, <2>1 DEF Fits
<1>7. ASSUME NEW d \in Documents, CreateDocument(d) PROVE Goal
  <2>1. MarkFollows(document'[d])
    BY <1>7 DEF CreateDocument, NoDocument, MarkFollows
  <2> QED
    BY <1>4, <1>7, <2>1 DEF CreateDocument
<1>8. ASSUME NEW d \in Documents, EditDocument(d) PROVE Goal
  <2>1. direct # Lost => MarkFollows(document'[d])
    BY <1>8 DEF EditDocument, MarksFollow, MarkFollows, Document
  <2> QED
    BY <1>4, <1>8, <2>1 DEF EditDocument
<1>9. ASSUME NEW d \in Documents, NEW o \in Documents, CopyDocument(o, d) PROVE Goal
  <2>1. MarkFollows(document'[d])
    BY <1>9 DEF CopyDocument, MarkFollows, Document
  <2> QED
    BY <1>4, <1>9, <2>1 DEF CopyDocument
<1>10. ASSUME NEW d \in Documents, action_post(d) PROVE Goal
  <2>1. limit'.open = limit.open /\ (limit.open \/ limit' = limit)
    BY <1>1, <1>10 DEF action_post, Fits
  <2>2. direct # Lost => MarkFollows(document'[d])
    BY <1>10 DEF action_post, MarksFollow, MarkFollows, Document, Fits
  <2> QED
    BY <1>4, <1>10, <2>1, <2>2 DEF action_post
<1>11. ASSUME NEW d \in Documents, DraftDocument(d) \/ CancelDocument(d) PROVE Goal
  <2>1. ASSUME NEW state \in {"draft", "cancel"}, Retire(d, state)
        PROVE  /\ limit'.open = limit.open /\ (limit.open \/ limit' = limit)
               /\ direct' # Lost =>
                    /\ direct # Lost
                    /\ \A o \in Documents \ {d} : document'[o] = document[o]
                    /\ MarkFollows(document'[d])
    <3>1. CASE document[d].credit /\ document[d].counted /\ limit.open
      <4>1. Consume(-document[d].amount)
        BY <2>1, <3>1 DEF Retire
      <4>2. direct' # Lost => direct # Lost
        BY <2>1, <3>1 DEF Retire
      <4>3. MarkFollows(document'[d])
        BY <2>1, <3>1 DEF Retire, MarkFollows, Document
      <4> QED
        BY <1>1, <2>1, <3>1, <4>1, <4>2, <4>3 DEF Retire
    <3>2. CASE ~(document[d].credit /\ document[d].counted /\ limit.open)
      <4>1. direct # Lost => MarkFollows(document'[d])
        BY <2>1, <3>2 DEF Retire, MarksFollow, MarkFollows, Document
      <4> QED
        BY <2>1, <3>2, <4>1 DEF Retire
    <3> QED
      BY <3>1, <3>2
  <2>2. CASE Retire(d, "draft") /\ UNCHANGED <<payment, loaded>>
    BY <1>4, <2>1, <2>2
  <2>3. CASE Retire(d, "cancel") /\ UNCHANGED <<payment, loaded>>
    BY <1>4, <2>1, <2>3
  <2>4. CASE /\ document[d].state = "draft"
             /\ document' = [document EXCEPT ![d].state = "cancel"]
             /\ UNCHANGED <<limit, direct, payment, loaded>>
    <3>1. direct # Lost => MarkFollows(document'[d])
      BY <2>4 DEF MarksFollow, MarkFollows, Document
    <3> QED
      BY <1>4, <2>4, <3>1
  <2> QED
    BY <1>11, <2>2, <2>3, <2>4 DEF DraftDocument, CancelDocument
<1>12. ASSUME NEW p \in Payments, RegisterPayment(p) PROVE Goal
  <2>1. PICK a \in Dues : /\ Consume(-a)
                          /\ payment' = [payment EXCEPT ![p] =
                               [state |-> "live", linked |-> TRUE, amount |-> a]]
    BY <1>12 DEF RegisterPayment
  <2>2. LinkFollows(payment'[p])
    BY <1>12, <2>1 DEF RegisterPayment, LinkFollows
  <2> QED
    BY <1>1, <1>5, <1>12, <2>1, <2>2 DEF RegisterPayment
<1>13. ASSUME NEW p \in Payments, action_cancel(p) \/ _process_cancel_payment(p) PROVE Goal
  <2>1. Restore(p) /\ UNCHANGED <<document, loaded>>
    BY <1>13 DEF action_cancel, _process_cancel_payment
  <2>2. limit'.open = limit.open /\ (limit.open \/ limit' = limit)
    BY <1>1, <2>1 DEF Restore
  <2>3. direct' # Lost => direct # Lost
    BY <2>1 DEF Restore
  <2>4. direct' # Lost => LinkFollows(payment'[p])
    BY <2>1, <2>3 DEF Restore, MarksFollow, LinkFollows, Payment
  <2>5. \A q \in Payments \ {p} : payment'[q] = payment[q]
    BY <2>1 DEF Restore
  <2> QED
    BY <1>5, <2>1, <2>2, <2>3, <2>4, <2>5
<1>14. ASSUME NEW p \in Payments, RepostPayment(p) \/ Unlink(p) PROVE Goal
  BY <1>5, <1>14 DEF RepostPayment, Unlink
<1>15. CASE WriteClient
  <2>1. limit'.open /\ UNCHANGED <<document, payment, loaded, direct>>
    BY <1>15 DEF WriteClient, Limit, NoLimit
  <2> QED
    BY <2>1 DEF ClosedIsBlank, MarksFollow, MarkFollows, LinkFollows
<1>16. CASE DeleteLimit
  BY <1>16 DEF DeleteLimit, ClosedIsBlank, MarksFollow
<1>17. CASE _process_limit_update
  BY <1>3, <1>17 DEF _process_limit_update, Limit
<1>18. CASE _process_conso_update
  BY <1>1, <1>2, <1>3, <1>18 DEF _process_conso_update
<1>19. CASE LoadLimits
  BY <1>19 DEF LoadLimits, ClosedIsBlank, MarksFollow, MarkFollows, LinkFollows
<1>20. CASE ConfirmLimits
  <2>1. limit.open /\ limit'.open
    BY <1>20 DEF ConfirmLimits, Imported, Limit, ClosedIsBlank
  <2> QED
    BY <1>20, <2>1 DEF ConfirmLimits, ClosedIsBlank, MarksFollow
<1>21. CASE TypeLimit
  <2>1. limit.open /\ limit'.open
    BY <1>21 DEF TypeLimit, Limit
  <2> QED
    BY <1>21, <2>1 DEF TypeLimit, ClosedIsBlank, MarksFollow
<1> QED
  BY <1>6, <1>7, <1>8, <1>9, <1>10, <1>11, <1>12, <1>13, <1>14, <1>15, <1>16, <1>17,
     <1>18, <1>19, <1>20, <1>21 DEF LimitNext

\* What the documents and the settlements add to the consumption.
Billed(doc) ==
    SumFunctionOnSet(AmountOf(doc), {d \in Documents : doc[d].state = "posted" /\ doc[d].credit})
Settled(pay) ==
    SumFunctionOnSet(AmountOf(pay), {p \in Payments : pay[p].state = "live"})

BilledBy(r) == IF r.state = "posted" /\ r.credit THEN r.amount ELSE 0
SettledBy(r) == IF r.state = "live" THEN r.amount ELSE 0

LEMMA ExplainedIs ==
    ConsumptionIsExplained <=>
        (direct # Lost => limit.consumed = direct + Billed(document) - Settled(payment))
BY DEF ConsumptionIsExplained, Billed, Settled, InvoicedOnAccount, SettledOnAccount

LEMMA SumsAreInt ==
    /\ \A doc \in [Documents -> Document] : Billed(doc) \in Int
    /\ \A pay \in [Payments -> Payment] : Settled(pay) \in Int
<1>1. ASSUME NEW doc \in [Documents -> Document] PROVE Billed(doc) \in Int
  <2> DEFINE S == {d \in Documents : doc[d].state = "posted" /\ doc[d].credit}
  <2>1. IsFiniteSet(S)
    BY AmountsAssumption, FS_Subset
  <2>2. \A x \in S : AmountOf(doc)[x] \in Int
    BY AmountsAssumption DEF AmountOf, Document, Dues
  <2> QED
    BY <2>1, <2>2, SumType DEF Billed
<1>2. ASSUME NEW pay \in [Payments -> Payment] PROVE Settled(pay) \in Int
  <2> DEFINE S == {p \in Payments : pay[p].state = "live"}
  <2>1. IsFiniteSet(S)
    BY AmountsAssumption, FS_Subset
  <2>2. \A x \in S : AmountOf(pay)[x] \in Int
    BY AmountsAssumption DEF AmountOf, Payment, Dues
  <2> QED
    BY <2>1, <2>2, SumType DEF Settled
<1> QED
  BY <1>1, <1>2

\* One document changes the sum by its own part.
LEMMA BilledChange ==
    ASSUME NEW doc \in [Documents -> Document], NEW new \in [Documents -> Document],
           NEW d \in Documents, \A o \in Documents \ {d} : new[o] = doc[o]
    PROVE  Billed(new) = Billed(doc) - BilledBy(doc[d]) + BilledBy(new[d])
<1> DEFINE f == AmountOf(doc)
           g == AmountOf(new)
           S == {o \in Documents : doc[o].state = "posted" /\ doc[o].credit}
           T == {o \in Documents : new[o].state = "posted" /\ new[o].credit}
<1>1. IsFiniteSet(S) /\ IsFiniteSet(T)
  BY AmountsAssumption, FS_Subset
<1>2. \A x \in S : f[x] \in Int
  BY AmountsAssumption DEF AmountOf, Document, Dues
<1>3. \A x \in T : g[x] \in Int
  BY AmountsAssumption DEF AmountOf, Document, Dues
<1>4. S \ {d} = T \ {d}
  OBVIOUS
<1>5. \A y \in S \ {d} : f[y] = g[y]
  BY DEF AmountOf
<1>6. Share(f, S, d) = BilledBy(doc[d]) /\ Share(g, T, d) = BilledBy(new[d])
  BY DEF Share, BilledBy, AmountOf
<1>7. Billed(doc) = SumFunctionOnSet(f, S) /\ Billed(new) = SumFunctionOnSet(g, T)
  BY DEF Billed
<1> HIDE DEF f, g, S, T
<1> QED
  BY <1>1, <1>2, <1>3, <1>4, <1>5, <1>6, <1>7, SumChange

\* One settlement does too.
LEMMA SettledChange ==
    ASSUME NEW pay \in [Payments -> Payment], NEW new \in [Payments -> Payment],
           NEW p \in Payments, \A q \in Payments \ {p} : new[q] = pay[q]
    PROVE  Settled(new) = Settled(pay) - SettledBy(pay[p]) + SettledBy(new[p])
<1> DEFINE f == AmountOf(pay)
           g == AmountOf(new)
           S == {q \in Payments : pay[q].state = "live"}
           T == {q \in Payments : new[q].state = "live"}
<1>1. IsFiniteSet(S) /\ IsFiniteSet(T)
  BY AmountsAssumption, FS_Subset
<1>2. \A x \in S : f[x] \in Int
  BY AmountsAssumption DEF AmountOf, Payment, Dues
<1>3. \A x \in T : g[x] \in Int
  BY AmountsAssumption DEF AmountOf, Payment, Dues
<1>4. S \ {p} = T \ {p}
  OBVIOUS
<1>5. \A y \in S \ {p} : f[y] = g[y]
  BY DEF AmountOf
<1>6. Share(f, S, p) = SettledBy(pay[p]) /\ Share(g, T, p) = SettledBy(new[p])
  BY DEF Share, SettledBy, AmountOf
<1>7. Settled(pay) = SumFunctionOnSet(f, S) /\ Settled(new) = SumFunctionOnSet(g, T)
  BY DEF Settled
<1> HIDE DEF f, g, S, T
<1> QED
  BY <1>1, <1>2, <1>3, <1>4, <1>5, <1>6, <1>7, SumChange

LEMMA ExplainedStep ==
    ASSUME LimitTypeOK, LimitTypeOK', ClosedIsBlank, MarksFollow, ConsumptionIsExplained,
           LimitNext
    PROVE  ConsumptionIsExplained'
<1> DEFINE Now == limit.consumed = direct + Billed(document) - Settled(payment)
           Then == limit'.consumed = direct' + Billed(document') - Settled(payment')
<1>0. direct # Lost => Now
  BY ExplainedIs
<1>1. /\ Billed(document) \in Int /\ Billed(document') \in Int
      /\ Settled(payment) \in Int /\ Settled(payment') \in Int
  BY SumsAreInt DEF LimitTypeOK
<1>2. /\ limit.consumed \in Int /\ limit'.consumed \in Int
      /\ direct # Lost => direct \in Int
      /\ \A d \in Documents : document[d].amount \in Int /\ document'[d].amount \in Int
      /\ \A p \in Payments : payment[p].amount \in Int /\ payment'[p].amount \in Int
  BY AmountsAssumption DEF LimitTypeOK, Limit, Document, Payment, Balances, Dues
<1>3. /\ \A d \in Documents : BilledBy(document[d]) \in Int /\ BilledBy(document'[d]) \in Int
      /\ \A p \in Payments : SettledBy(payment[p]) \in Int /\ SettledBy(payment'[p]) \in Int
  BY <1>2 DEF BilledBy, SettledBy
<1>4. SUFFICES ASSUME direct' # Lost PROVE Then
  BY DEF ConsumptionIsExplained, Billed, Settled, InvoicedOnAccount, SettledOnAccount, AmountOf
<1>5. ASSUME NEW a, Consume(a) PROVE limit'.consumed = limit.consumed + a
  BY <1>5 DEF Consume, LimitTypeOK, Limit
<1>6. ASSUME NEW a, Direct(a) PROVE direct # Lost /\ direct' = direct + a
  BY <1>4, <1>6 DEF Direct
<1>7. ASSUME NEW a \in Int, Consume(a), Direct(a), UNCHANGED <<document, payment>> PROVE Then
  <2>1. direct \in Int /\ Now
    BY <1>0, <1>2, <1>6, <1>7
  <2> QED
    BY <1>1, <1>2, <1>5, <1>6, <1>7, <2>1
<1>8. ASSUME NEW d \in Documents, direct' = direct, payment' = payment,
             \A o \in Documents \ {d} : document'[o] = document[o],
             limit'.consumed - limit.consumed = BilledBy(document'[d]) - BilledBy(document[d])
      PROVE  Then
  <2>1. direct \in Int /\ Now
    BY <1>0, <1>2, <1>4, <1>8
  <2>2. Billed(document') = Billed(document) - BilledBy(document[d]) + BilledBy(document'[d])
    BY <1>8, BilledChange DEF LimitTypeOK
  <2>3. BilledBy(document[d]) \in Int /\ BilledBy(document'[d]) \in Int
    BY <1>3
  <2>4. Settled(payment') = Settled(payment)
    BY <1>8
  <2>5. limit.consumed \in Int /\ limit'.consumed \in Int
    BY <1>2
  <2> QED
    BY <1>1, <1>8, <2>1, <2>2, <2>3, <2>4, <2>5
<1>9. ASSUME NEW p \in Payments, direct' = direct, document' = document,
             \A q \in Payments \ {p} : payment'[q] = payment[q],
             limit'.consumed - limit.consumed = SettledBy(payment[p]) - SettledBy(payment'[p])
      PROVE  Then
  <2>1. direct \in Int /\ Now
    BY <1>0, <1>2, <1>4, <1>9
  <2>2. Settled(payment') = Settled(payment) - SettledBy(payment[p]) + SettledBy(payment'[p])
    BY <1>9, SettledChange DEF LimitTypeOK
  <2> QED
    BY <1>1, <1>2, <1>3, <1>9, <2>1, <2>2
<1>10. ASSUME limit'.consumed = limit.consumed, UNCHANGED <<document, payment, direct>>
       PROVE  Then
  BY <1>0, <1>4, <1>10
<1>11. ASSUME NEW a \in Dues, PayAtTill(a) \/ PayAtTill(-a) PROVE Then
  <2>1. a \in Int /\ -a \in Int
    BY AmountsAssumption DEF Dues
  <2> QED
    BY <1>7, <1>11, <2>1 DEF PayAtTill
<1>12. ASSUME NEW d \in Documents, document[d].state # "posted", document'[d].state # "posted",
              \A o \in Documents \ {d} : document'[o] = document[o],
              UNCHANGED <<limit, payment, direct>>
       PROVE  Then
  <2>1. BilledBy(document[d]) = 0 /\ BilledBy(document'[d]) = 0
    BY <1>12 DEF BilledBy
  <2> QED
    BY <1>2, <1>8, <1>12, <2>1
<1>13. ASSUME NEW d \in Documents, CreateDocument(d) \/ EditDocument(d) PROVE Then
  <2>1. document'[d].state = "draft"
    <3>1. CASE CreateDocument(d)
      <4>1. PICK c \in BOOLEAN, a \in Dues :
               document' = [document EXCEPT ![d] =
                   [NoDocument EXCEPT !.state = "draft", !.credit = c, !.amount = a]]
        BY <3>1 DEF CreateDocument
      <4>2. document'[d] = [NoDocument EXCEPT !.state = "draft", !.credit = c, !.amount = a]
        BY <4>1, <1>13 DEF LimitTypeOK
      <4> QED
        BY <4>2 DEF NoDocument
    <3>2. CASE EditDocument(d)
      <4>1. document[d].state = "draft" /\ document[d] \in Document
        BY <3>2, <1>13 DEF EditDocument, LimitTypeOK
      <4>2. PICK c \in BOOLEAN, a \in Dues :
               document' = [document EXCEPT ![d].credit = c, ![d].amount = a]
        BY <3>2 DEF EditDocument
      <4>3. document'[d].state = document[d].state
        BY <4>1, <4>2, <1>13 DEF LimitTypeOK, Document
      <4> QED
        BY <4>1, <4>3
    <3> QED
      BY <1>13, <3>1, <3>2
  <2>2. \A o \in Documents \ {d} : document'[o] = document[o]
    BY <1>13 DEF CreateDocument, EditDocument, LimitTypeOK
  <2> QED
    BY <1>12, <1>13, <2>1, <2>2 DEF CreateDocument, EditDocument
<1>14. ASSUME NEW d \in Documents, NEW o \in Documents, CopyDocument(o, d) PROVE Then
  <2>1. document'[d].state = "draft"
    BY <1>14 DEF CopyDocument, LimitTypeOK, Document
  <2>2. \A c \in Documents \ {d} : document'[c] = document[c]
    BY <1>14 DEF CopyDocument, LimitTypeOK
  <2>3. document[d].state # "posted"
    BY <1>14 DEF CopyDocument
  <2>4. UNCHANGED <<limit, payment, direct>>
    BY <1>14 DEF CopyDocument
  <2> QED
    BY <1>12, <2>1, <2>2, <2>3, <2>4
<1>15. ASSUME NEW d \in Documents, action_post(d) PROVE Then
  <2>1. BilledBy(document[d]) = 0
    BY <1>15 DEF action_post, BilledBy
  <2>2. \A o \in Documents \ {d} : document'[o] = document[o]
    BY <1>15 DEF action_post, LimitTypeOK
  <2>3. CASE document[d].credit
    <3>1. BilledBy(document'[d]) = document[d].amount
      BY <1>15, <2>3 DEF action_post, BilledBy, LimitTypeOK, Document
    <3>2. Consume(document[d].amount)
      BY <1>15, <2>3 DEF action_post
    <3> QED
      BY <1>2, <1>5, <1>8, <1>15, <2>1, <2>2, <3>1, <3>2 DEF action_post
  <2>4. CASE ~document[d].credit
    <3>1. BilledBy(document'[d]) = 0
      BY <1>15, <2>4 DEF action_post, BilledBy, LimitTypeOK, Document
    <3> QED
      BY <1>2, <1>8, <1>15, <2>1, <2>2, <2>4, <3>1 DEF action_post
  <2> QED
    BY <2>3, <2>4
<1>16. ASSUME NEW d \in Documents, NEW state \in {"draft", "cancel"}, Retire(d, state),
              document[d].state \in {"posted", "cancel"}, payment' = payment
       PROVE  Then
  <2>1. \A o \in Documents \ {d} : document'[o] = document[o]
    BY <1>16 DEF Retire, LimitTypeOK
  <2>2. BilledBy(document'[d]) = 0
    BY <1>16 DEF Retire, BilledBy, LimitTypeOK, Document
  <2>3. direct # Lost /\ direct' = direct /\ MarkFollows(document[d])
    BY <1>4, <1>16 DEF Retire, MarksFollow
  <2>4. CASE document[d].credit /\ document[d].counted /\ limit.open
    <3>1. Consume(-document[d].amount) /\ ~document[d].inherited
      BY <1>4, <1>16, <2>3, <2>4 DEF Retire
    <3>2. BilledBy(document[d]) = document[d].amount
      BY <2>3, <2>4, <3>1 DEF MarkFollows, BilledBy
    <3>3. limit'.consumed = limit.consumed + (-document[d].amount)
      BY <3>1, <1>5
    <3> QED
      BY <1>2, <1>8, <1>16, <2>1, <2>2, <2>3, <3>2, <3>3
  <2>5. CASE ~(document[d].credit /\ document[d].counted /\ limit.open)
    <3>1. BilledBy(document[d]) = 0
      BY <2>3, <2>5 DEF MarkFollows, BilledBy
    <3>2. limit' = limit
      BY <1>16, <2>5 DEF Retire
    <3> QED
      BY <1>2, <1>8, <1>16, <2>1, <2>2, <2>3, <3>1, <3>2
  <2> QED
    BY <2>4, <2>5
<1>17. ASSUME NEW d \in Documents, DraftDocument(d) PROVE Then
  BY <1>16, <1>17 DEF DraftDocument
<1>18. ASSUME NEW d \in Documents, CancelDocument(d) PROVE Then
  <2>1. CASE document[d].state = "posted" /\ Retire(d, "cancel") /\ payment' = payment
    BY <1>16, <2>1
  <2>2. CASE /\ document[d].state = "draft"
             /\ document' = [document EXCEPT ![d].state = "cancel"]
             /\ UNCHANGED <<limit, direct, payment>>
    <3>1. document'[d].state = "cancel"
      BY <2>2 DEF LimitTypeOK, Document
    <3>2. \A o \in Documents \ {d} : document'[o] = document[o]
      BY <2>2 DEF LimitTypeOK
    <3> QED
      BY <1>12, <2>2, <3>1, <3>2
  <2> QED
    BY <1>18, <2>1, <2>2 DEF CancelDocument
<1>19. ASSUME NEW p \in Payments, RegisterPayment(p) PROVE Then
  <2>1. PICK a \in Dues : /\ Consume(-a)
                          /\ payment' = [payment EXCEPT ![p] =
                               [state |-> "live", linked |-> TRUE, amount |-> a]]
    BY <1>19 DEF RegisterPayment
  <2>2. a \in Int
    BY AmountsAssumption DEF Dues
  <2>3. SettledBy(payment[p]) = 0 /\ SettledBy(payment'[p]) = a
    BY <1>19, <2>1 DEF RegisterPayment, SettledBy, LimitTypeOK
  <2>4. limit'.consumed = limit.consumed + (-a)
    BY <1>5, <2>1
  <2>5. \A q \in Payments \ {p} : payment'[q] = payment[q]
    BY <2>1 DEF LimitTypeOK
  <2>6. limit'.consumed - limit.consumed = SettledBy(payment[p]) - SettledBy(payment'[p])
    BY <1>2, <2>2, <2>3, <2>4
  <2> QED
    BY <1>9, <1>19, <2>5, <2>6 DEF RegisterPayment
<1>20. ASSUME NEW p \in Payments, action_cancel(p) \/ _process_cancel_payment(p) PROVE Then
  <2>0. Restore(p) /\ UNCHANGED <<document, loaded>> /\ direct # Lost
    BY <1>4, <1>20 DEF action_cancel, _process_cancel_payment, Restore
  <2>1. payment[p].linked
    BY <1>20, <2>0 DEF action_cancel, _process_cancel_payment, MarksFollow, LinkFollows
  <2>2. payment[p].state = "live" /\ limit.open
    BY <2>0, <2>1 DEF MarksFollow, LinkFollows
  <2>3. /\ Consume(payment[p].amount)
        /\ payment' = [payment EXCEPT ![p].state = "canceled", ![p].linked = FALSE]
        /\ direct' = direct
    BY <1>4, <2>0, <2>1 DEF Restore
  <2>4. SettledBy(payment[p]) = payment[p].amount /\ SettledBy(payment'[p]) = 0
    BY <2>2, <2>3 DEF SettledBy, LimitTypeOK, Payment
  <2>5. limit'.consumed = limit.consumed + payment[p].amount
    BY <1>5, <2>3
  <2>6. \A q \in Payments \ {p} : payment'[q] = payment[q]
    BY <2>3 DEF LimitTypeOK
  <2>7. payment[p].amount \in Int
    BY <1>2
  <2>8. limit'.consumed - limit.consumed = SettledBy(payment[p]) - SettledBy(payment'[p])
    BY <1>2, <2>4, <2>5, <2>7
  <2> QED
    BY <1>9, <2>0, <2>3, <2>6, <2>8
<1>21. ASSUME NEW p \in Payments, RepostPayment(p) \/ Unlink(p) PROVE Then
  BY <1>4, <1>21 DEF RepostPayment, Unlink
<1>22. CASE WriteClient
  <2>1. limit'.consumed = limit.consumed
    BY <1>22 DEF WriteClient, LimitTypeOK, Limit, NoLimit, ClosedIsBlank
  <2> QED
    BY <1>10, <1>22, <2>1 DEF WriteClient
<1>23. CASE _process_limit_update
  <2>1. limit'.consumed = limit.consumed
    BY <1>23 DEF _process_limit_update, LimitTypeOK, Limit
  <2> QED
    BY <1>10, <1>23, <2>1 DEF _process_limit_update
<1>24. CASE _process_conso_update
  <2>1. PICK a \in Dues : Consume(-a) /\ Direct(-a)
    BY <1>24 DEF _process_conso_update
  <2>2. -a \in Int
    BY AmountsAssumption DEF Dues
  <2> QED
    BY <1>7, <1>24, <2>1, <2>2 DEF _process_conso_update
<1>25. CASE LoadLimits
  BY <1>10, <1>25 DEF LoadLimits
<1>26. CASE DeleteLimit \/ ConfirmLimits \/ TypeLimit
  BY <1>4, <1>26 DEF DeleteLimit, ConfirmLimits, TypeLimit
<1> QED
  BY <1>11, <1>13, <1>14, <1>15, <1>17, <1>18, <1>19, <1>20, <1>21, <1>22, <1>23,
     <1>24, <1>25, <1>26 DEF LimitNext

\* The consumption of a limit is what the documents and the settlements say.
THEOREM LimitIsExplained == LimitSpec => [](LimitInv /\ ClosedIsBlank /\ MarksFollow)
<1>1. LimitInit => LimitIInv
  <2> SUFFICES ASSUME LimitInit PROVE LimitIInv
    OBVIOUS
  <2>1. LimitTypeOK
    BY AmountsAssumption DEF LimitInit, LimitTypeOK, NoLimit, Limit, NoDocument, Document,
       NoPayment, Payment, Dues, Balances, Ceilings
  <2>2. ClosedIsBlank /\ MarksFollow
    BY DEF LimitInit, ClosedIsBlank, MarksFollow, MarkFollows, LinkFollows, NoDocument, NoPayment
  <2>3. ConsumptionIsExplained
    <3>1. InvoicedOnAccount = {} /\ SettledOnAccount = {}
      BY DEF LimitInit, InvoicedOnAccount, SettledOnAccount, NoDocument, NoPayment
    <3> QED
      BY <3>1, SumEmpty DEF ConsumptionIsExplained, LimitInit, NoLimit
  <2> QED
    BY <2>1, <2>2, <2>3 DEF LimitIInv, LimitInv
<1>2. LimitIInv /\ [LimitNext]_limitVars => LimitIInv'
  <2> SUFFICES ASSUME LimitIInv, [LimitNext]_limitVars PROVE LimitIInv'
    OBVIOUS
  <2>1. CASE LimitNext
    BY <2>1, LimitTypeStep, MarksStep, ExplainedStep DEF LimitIInv, LimitInv
  <2>2. CASE UNCHANGED limitVars
    BY <2>2 DEF limitVars, LimitIInv, LimitInv, LimitTypeOK, ClosedIsBlank, MarksFollow,
       MarkFollows, LinkFollows, ConsumptionIsExplained, InvoicedOnAccount, SettledOnAccount, AmountOf
  <2> QED
    BY <2>1, <2>2
<1> QED
  BY <1>1, <1>2, PTL DEF LimitSpec, LimitIInv

\* The operations of the ledger, and what is typed over, explain every change of the
\* consumption, but those of a sheet that was out of date or has the client twice, and of a
\* limit that is deleted.
THEOREM LedgerTraces == LimitSpec => LedgerTracesConsumption
<1> DEFINE A == Gap(limit') # Gap(limit)
                 => \/ /\ loaded # Unread /\ loaded' = Unread
                       /\ loaded.consumed # limit.consumed \/ loaded.twice
                    \/ ~limit'.open
<1>1. ASSUME LimitTypeOK, ClosedIsBlank, [LimitNext]_limitVars PROVE [A]_limitVars
  <2> USE <1>1
  <2>1. /\ limit \in Limit /\ limit.consumed \in Int /\ limit.ledger \in Int
        /\ limit.typed \in Int
        /\ loaded # Unread => loaded.consumed \in Int
    BY AmountsAssumption DEF LimitTypeOK, Limit, Balances, Sheet
  <2>2. ASSUME NEW a \in Int, Consume(a) PROVE A
    BY <2>1, <2>2 DEF Consume, Gap, Limit
  <2>3. CASE limit' = limit
    BY <2>3
  <2>4. ASSUME NEW a \in Dues, PayAtTill(a) \/ PayAtTill(-a) PROVE A
    <3>1. a \in Int /\ -a \in Int
      BY AmountsAssumption DEF Dues
    <3> QED
      BY <2>2, <2>4, <3>1 DEF PayAtTill
  <2>5. ASSUME NEW d \in Documents, action_post(d) \/ DraftDocument(d) \/ CancelDocument(d) PROVE A
    <3>1. document[d].amount \in Int
      BY AmountsAssumption DEF LimitTypeOK, Document, Dues
    <3>2. -document[d].amount \in Int
      BY <3>1
    <3> QED
      BY <2>2, <2>3, <2>5, <3>1, <3>2 DEF action_post, DraftDocument, CancelDocument, Retire
  <2>6. ASSUME NEW d \in Documents, CreateDocument(d) \/ EditDocument(d)
                                    \/ \E o \in Documents : CopyDocument(o, d)
        PROVE  A
    BY <2>3, <2>6 DEF CreateDocument, EditDocument, CopyDocument
  <2>7. ASSUME NEW p \in Payments, RegisterPayment(p) PROVE A
    <3>1. \A a \in Dues : -a \in Int
      BY AmountsAssumption DEF Dues
    <3> QED
      BY <2>2, <2>7, <3>1 DEF RegisterPayment
  <2>8. ASSUME NEW p \in Payments, action_cancel(p) \/ _process_cancel_payment(p) PROVE A
    <3>1. payment[p].amount \in Int
      BY AmountsAssumption DEF LimitTypeOK, Payment, Dues
    <3> QED
      BY <2>2, <2>3, <2>8, <3>1 DEF action_cancel, _process_cancel_payment, Restore
  <2>9. ASSUME NEW p \in Payments, RepostPayment(p) \/ Unlink(p) PROVE A
    BY <2>3, <2>9 DEF RepostPayment, Unlink
  <2>10. CASE WriteClient \/ _process_limit_update
    <3>1. PICK c \in Ceilings :
             \/ limit' = [limit EXCEPT !.ceiling = c]
             \/ ~limit.open /\ limit' = [NoLimit EXCEPT !.open = TRUE, !.ceiling = c]
      BY <2>10 DEF WriteClient, _process_limit_update
    <3>2. CASE limit' = [limit EXCEPT !.ceiling = c]
      BY <2>1, <3>2 DEF Gap, Limit
    <3>3. CASE ~limit.open /\ limit' = [NoLimit EXCEPT !.open = TRUE, !.ceiling = c]
      <4>1. Gap(limit') = 0 /\ Gap(limit) = 0
        BY <3>3 DEF Gap, NoLimit
      <4> QED
        BY <4>1
    <3> QED
      BY <3>1, <3>2, <3>3
  <2>11. CASE DeleteLimit
    BY <2>11 DEF DeleteLimit, NoLimit
  <2>12. CASE _process_conso_update
    <3>1. \A a \in Dues : -a \in Int
      BY AmountsAssumption DEF Dues
    <3> QED
      BY <2>2, <2>12, <3>1 DEF _process_conso_update
  <2>13. CASE LoadLimits
    BY <2>3, <2>13 DEF LoadLimits
  <2>14. CASE ConfirmLimits
    <3>1. PICK n \in Balances : \E first \in FirstRows : limit' = Imported(n, first)
      BY <2>14 DEF ConfirmLimits
    <3>2. PICK first \in FirstRows : limit' = Imported(n, first)
      BY <3>1
    <3>3. loaded # Unread /\ loaded' = Unread /\ limit.open
      BY <2>14 DEF ConfirmLimits, ClosedIsBlank
    <3>4. CASE loaded.twice
      BY <3>3, <3>4
    <3>5. CASE ~loaded.twice
      <4>1. n \in Int /\ first = 0
        BY <3>2, <3>5, AmountsAssumption DEF Balances, FirstRows
      <4>2. PICK l \in Int : l = limit.ledger + (n - loaded.consumed) + first
        BY <2>1, <3>3, <4>1
      <4>3. limit' = [limit EXCEPT !.consumed = n, !.ledger = l]
        BY <3>2, <4>2, <2>1 DEF Imported, Limit
      <4>4. /\ limit'.open = limit.open /\ limit'.consumed = n /\ limit'.ledger = l
            /\ limit'.typed = limit.typed
        BY <2>1, <4>3 DEF Limit
      <4>5. Gap(limit') = n - l - limit.typed
        BY <3>3, <4>4 DEF Gap
      <4>6. Gap(limit) = limit.consumed - limit.ledger - limit.typed
        BY <3>3 DEF Gap
      <4> QED
        BY <2>1, <3>3, <4>1, <4>2, <4>5, <4>6
    <3> QED
      BY <3>4, <3>5
  <2>15. CASE TypeLimit
    <3>1. PICK n \in Balances, c \in Ceilings :
             limit' = [limit EXCEPT !.consumed = n, !.ceiling = c,
                                    !.typed = @ + n - limit.consumed]
      BY <2>15 DEF TypeLimit
    <3>2. n \in Int
      BY AmountsAssumption DEF Balances
    <3>3. PICK w \in Int : w = limit.typed + n - limit.consumed
      BY <2>1, <3>2
    <3>4. limit' = [limit EXCEPT !.consumed = n, !.ceiling = c, !.typed = w]
      BY <2>1, <3>1, <3>3 DEF Limit
    <3>5. /\ limit'.open = limit.open /\ limit'.consumed = n /\ limit'.ledger = limit.ledger
          /\ limit'.typed = w
      BY <2>1, <3>4 DEF Limit
    <3>6. Gap(limit') = n - limit.ledger - w /\ Gap(limit) = limit.consumed - limit.ledger - limit.typed
      BY <2>15, <3>5 DEF Gap, TypeLimit
    <3> QED
      BY <2>1, <3>2, <3>3, <3>6
  <2> QED
    BY <2>4, <2>5, <2>6, <2>7, <2>8, <2>9, <2>10, <2>11, <2>12, <2>13, <2>14, <2>15
       DEF LimitNext
<1> QED
  BY <1>1, LimitIsExplained, PTL DEF LimitSpec, LedgerTracesConsumption, LimitInv

\* The consumption goes over the ceiling only through the doors that LimitRespected names.
THEOREM LimitIsRespected == LimitSpec => LimitRespected
<1> DEFINE Excused == \/ limit'.ceiling # limit.ceiling \/ limit'.typed # limit.typed
                      \/ loaded # Unread /\ loaded' = Unread
                      \/ \E p \in Payments : payment[p].linked /\ ~payment'[p].linked
           A == Over(limit') /\ ~Over(limit) => Excused
<1>1. ASSUME LimitTypeOK, [LimitNext]_limitVars PROVE [A]_limitVars
  <2> USE <1>1
  <2>1. limit \in Limit /\ limit.consumed \in Int /\ limit.ceiling \in Int
    BY AmountsAssumption DEF LimitTypeOK, Limit, Balances, Ceilings
  <2>2. ASSUME NEW a \in Int, Consume(a), a <= 0 \/ Fits(a) PROVE A
    BY <2>1, <2>2 DEF Consume, Fits, Over, Limit
  <2>3. CASE limit' = limit
    BY <2>3
  <2>4. \A a \in Dues : a \in Int /\ -a \in Int /\ -a <= 0
    BY AmountsAssumption DEF Dues
  <2>5. ASSUME NEW a \in Dues, PayAtTill(a) \/ PayAtTill(-a) PROVE A
    BY <2>2, <2>4, <2>5 DEF PayAtTill
  <2>6. ASSUME NEW d \in Documents, action_post(d) \/ DraftDocument(d) \/ CancelDocument(d) PROVE A
    <3>1. document[d].amount \in Dues
      BY DEF LimitTypeOK, Document
    <3> QED
      BY <2>2, <2>3, <2>4, <2>6, <3>1 DEF action_post, DraftDocument, CancelDocument, Retire
  <2>7. ASSUME NEW d \in Documents, CreateDocument(d) \/ EditDocument(d)
                                    \/ \E o \in Documents : CopyDocument(o, d)
        PROVE  A
    BY <2>3, <2>7 DEF CreateDocument, EditDocument, CopyDocument
  <2>8. ASSUME NEW p \in Payments, RegisterPayment(p) PROVE A
    BY <2>2, <2>4, <2>8 DEF RegisterPayment
  <2>9. ASSUME NEW p \in Payments, action_cancel(p) \/ _process_cancel_payment(p) PROVE A
    <3>1. Restore(p)
      BY <2>9 DEF action_cancel, _process_cancel_payment
    <3>2. CASE /\ payment[p].linked
               /\ payment' = [payment EXCEPT ![p].state = "canceled", ![p].linked = FALSE]
      <4>1. ~payment'[p].linked
        BY <3>2 DEF LimitTypeOK, Payment
      <4> QED
        BY <3>2, <4>1
    <3> QED
      BY <2>3, <3>1, <3>2 DEF Restore
  <2>10. ASSUME NEW p \in Payments, RepostPayment(p) \/ Unlink(p) PROVE A
    BY <2>3, <2>10 DEF RepostPayment, Unlink
  <2>11. CASE WriteClient \/ _process_limit_update
    <3>1. PICK c \in Ceilings :
             limit' = [limit EXCEPT !.ceiling = c]
             \/ limit' = [NoLimit EXCEPT !.open = TRUE, !.ceiling = c]
      BY <2>11 DEF WriteClient, _process_limit_update
    <3>2. c \in Int /\ 0 <= c
      BY AmountsAssumption DEF Ceilings
    <3>3. CASE limit' = [limit EXCEPT !.ceiling = c]
      BY <2>1, <3>3 DEF Over, Limit
    <3>4. CASE limit' = [NoLimit EXCEPT !.open = TRUE, !.ceiling = c]
      <4>1. limit'.consumed = 0 /\ limit'.ceiling = c
        BY <3>4 DEF NoLimit
      <4> QED
        BY <3>2, <4>1 DEF Over
    <3> QED
      BY <3>1, <3>3, <3>4
  <2>12. CASE DeleteLimit
    BY <2>12 DEF DeleteLimit, NoLimit, Over
  <2>13. CASE _process_conso_update
    BY <2>2, <2>4, <2>13 DEF _process_conso_update
  <2>14. CASE LoadLimits
    BY <2>3, <2>14 DEF LoadLimits
  <2>15. CASE ConfirmLimits
    BY <2>15 DEF ConfirmLimits
  <2>16. CASE TypeLimit
    <3>1. PICK n \in Balances, c \in Ceilings :
             limit' = [limit EXCEPT !.consumed = n, !.ceiling = c,
                                    !.typed = @ + n - limit.consumed]
      BY <2>16 DEF TypeLimit
    <3>2. n \in Int /\ c \in Int /\ limit.typed \in Int
      BY AmountsAssumption DEF Balances, Ceilings, LimitTypeOK, Limit
    <3>3. PICK w \in Int : w = limit.typed + n - limit.consumed
      BY <2>1, <3>2
    <3>4. limit' = [limit EXCEPT !.consumed = n, !.ceiling = c, !.typed = w]
      BY <2>1, <3>1, <3>3 DEF Limit
    <3>5. limit'.open = limit.open /\ limit'.consumed = n /\ limit'.ceiling = c
          /\ limit'.typed = w
      BY <2>1, <3>4 DEF Limit
    <3>6. CASE limit'.typed = limit.typed /\ limit'.ceiling = limit.ceiling
      BY <2>1, <3>2, <3>3, <3>5, <3>6 DEF Over
    <3> QED
      BY <3>6
  <2> QED
    BY <2>5, <2>6, <2>7, <2>8, <2>9, <2>10, <2>11, <2>12, <2>13, <2>14, <2>15, <2>16
       DEF LimitNext
<1> QED
  BY <1>1, LimitIsExplained, PTL DEF LimitSpec, LimitRespected, LimitInv

-----------------------------------------------------------------------------
(* The loyalty card.                                                       *)

\* Every operation on the card keeps its invariant.
LEMMA LoyaltyStep ==
    ASSUME LoyaltyInv, LoyaltyNext
    PROVE  LoyaltyInv'
<1> USE LoyaltyAssumption
<1>1. /\ LoyaltyTypeOK /\ PointsAreThere /\ BalanceIsExplained /\ ChangeIsCreditedOnce
      /\ points \in Int /\ told \in Int /\ history \in Int /\ written \in Int
  BY DEF LoyaltyInv, LoyaltyTypeOK, Sheets
\* The points fall no lower than zero, and when they are below they do not fall.
<1>2. ASSUME NEW a \in Int, NEW refund, Move(a, refund), 0 <= a \/ 0 <= points + a,
             UNCHANGED <<excluded, sheet, told, written>>,
             till' \in [TillOrders -> TillOrder], ChangeIsCreditedOnce'
      PROVE  LoyaltyInv'
  <2>1. points' = points + a /\ points + a <= MaxPoints
    BY <1>2 DEF Move
  <2>2. points' \in Sheets /\ (points' >= 0 \/ points' >= told)
    BY <1>1, <1>2, <2>1 DEF LoyaltyTypeOK, PointsAreThere, Sheets
  <2> QED
    BY <1>1, <1>2, <2>2 DEF LoyaltyInv, LoyaltyTypeOK, PointsAreThere, BalanceIsExplained, Move
<1>3. ASSUME NEW o \in TillOrders, SaveDraft(o) PROVE LoyaltyInv'
  <2>1. PICK c \in 0 .. MaxAmount :
           till' = [till EXCEPT ![o].state = "draft", ![o].change = c]
    BY <1>3 DEF SaveDraft
  <2>2. till \in [TillOrders -> TillOrder] /\ till[o].credited = 0
    BY <1>1, <1>3 DEF LoyaltyTypeOK, ChangeIsCreditedOnce, SaveDraft
  <2>3. till' \in [TillOrders -> TillOrder]
    BY <2>1, <2>2 DEF TillOrder
  <2>4. ChangeIsCreditedOnce'
    BY <1>1, <2>1, <2>2 DEF ChangeIsCreditedOnce, TillOrder
  <2> QED
    BY <1>1, <1>3, <2>3, <2>4 DEF SaveDraft, LoyaltyInv, LoyaltyTypeOK, PointsAreThere,
       BalanceIsExplained
<1>4. ASSUME NEW o \in TillOrders, PayTillOrder(o) PROVE LoyaltyInv'
  <2>1. PICK p \in Amounts, after \in {"paid", "done"} :
          LET change == IF Creditable(after, p[2]) THEN p[2] ELSE 0 IN
          /\ Spendable(p[1])
          /\ Move(change - p[1], p[1] < 0)
          /\ till' = [till EXCEPT ![o] =
                [state |-> after, change |-> p[2], credited |-> @.credited + change]]
    BY <1>4 DEF PayTillOrder
  <2> DEFINE change == IF Creditable(after, p[2]) THEN p[2] ELSE 0
             paidOrder == [state |-> after, change |-> p[2],
                           credited |-> till[o].credited + change]
  <2>2. till \in [TillOrders -> TillOrder] /\ till[o].credited = 0
    BY <1>1, <1>4 DEF LoyaltyTypeOK, ChangeIsCreditedOnce, PayTillOrder
  <2>3. p[1] \in -MaxAmount .. MaxAmount /\ p[2] \in 0 .. MaxAmount /\ p[1] <= points
    BY <2>1 DEF Amounts, Spendable
  <2>4. /\ change \in {0, p[2]} /\ change \in Int /\ 0 <= change
        /\ after # "paid" => change = 0
    BY <2>3 DEF Creditable
  <2>5. Move(change - p[1], p[1] < 0) /\ till' = [till EXCEPT ![o] = paidOrder]
    BY <2>1
  <2> HIDE DEF change
  <2>6. paidOrder \in TillOrder
    BY <2>2, <2>3, <2>4 DEF TillOrder
  <2>7. /\ paidOrder.state # "paid" => paidOrder.credited = 0
        /\ paidOrder.credited \in {0, paidOrder.change}
    BY <2>2, <2>4
  <2> HIDE DEF paidOrder
  <2>8. till' \in [TillOrders -> TillOrder]
    BY <2>2, <2>5, <2>6
  <2>9. ChangeIsCreditedOnce'
    BY <1>1, <2>2, <2>5, <2>7 DEF ChangeIsCreditedOnce
  <2>10. change - p[1] \in Int /\ (0 <= change - p[1] \/ 0 <= points + (change - p[1]))
    BY <1>1, <2>3, <2>4
  <2> QED
    BY <1>2, <1>4, <2>5, <2>8, <2>9, <2>10 DEF PayTillOrder
<1>5. CASE PayInvoice
  <2>1. PICK a \in 1 .. MaxAmount : Spendable(a) /\ Move(-a, FALSE)
    BY <1>5 DEF PayInvoice
  <2>2. -a \in Int /\ 0 <= points + (-a)
    BY <1>1, <2>1 DEF Spendable
  <2> QED
    BY <1>1, <1>2, <1>5, <2>1, <2>2 DEF PayInvoice, LoyaltyTypeOK, ChangeIsCreditedOnce
<1>6. CASE TypeChange
  <2>1. PICK a \in 1 .. MaxAmount : Move(a, FALSE)
    BY <1>6 DEF TypeChange
  <2>2. a \in Int /\ 0 <= a
    OBVIOUS
  <2> QED
    BY <1>1, <1>2, <1>6, <2>1, <2>2 DEF TypeChange, LoyaltyTypeOK, ChangeIsCreditedOnce
<1>7. CASE ExcludeClient \/ LoadSheet
  BY <1>1, <1>7 DEF ExcludeClient, LoadSheet, LoyaltyInv, LoyaltyTypeOK, PointsAreThere,
     BalanceIsExplained, ChangeIsCreditedOnce
<1>8. CASE ConfirmSheet
  BY <1>1, <1>8 DEF ConfirmSheet, LoyaltyInv, LoyaltyTypeOK, PointsAreThere,
     BalanceIsExplained, ChangeIsCreditedOnce, NoSheet, Sheets
<1> QED
  BY <1>3, <1>4, <1>5, <1>6, <1>7, <1>8 DEF LoyaltyNext

\* The balance of a card is negative only as far as a sheet made it so, and is explained by
\* its history since the last import; a change given is credited once.
THEOREM CardIsSound == LoyaltySpec => []LoyaltyInv
<1>1. LoyaltyInit => LoyaltyInv
  <2> SUFFICES ASSUME LoyaltyInit PROVE LoyaltyInv
    OBVIOUS
  <2>1. NoTillOrder \in TillOrder
    BY LoyaltyAssumption DEF NoTillOrder, TillOrder
  <2>2. LoyaltyTypeOK
    <3>1. till \in [TillOrders -> TillOrder]
      BY <2>1 DEF LoyaltyInit
    <3>2. 0 \in Sheets /\ 0 \in -MaxHistory .. MaxHistory
      BY LoyaltyAssumption DEF Sheets
    <3>3. excluded \in BOOLEAN
      BY DEF LoyaltyInit
    <3>4. /\ points \in Sheets /\ told \in Sheets
          /\ history \in -MaxHistory .. MaxHistory /\ written \in Int
      BY <3>2 DEF LoyaltyInit
    <3>5. sheet \in {NoSheet} \cup Sheets
      BY DEF LoyaltyInit
    <3> QED
      BY <3>1, <3>3, <3>4, <3>5 DEF LoyaltyTypeOK
  <2>3. PointsAreThere /\ BalanceIsExplained /\ ChangeIsCreditedOnce
    BY DEF LoyaltyInit, PointsAreThere, BalanceIsExplained, ChangeIsCreditedOnce, NoTillOrder
  <2> QED
    BY <2>2, <2>3 DEF LoyaltyInv
<1>2. LoyaltyInv /\ [LoyaltyNext]_loyaltyVars => LoyaltyInv'
  <2>1. LoyaltyInv /\ UNCHANGED loyaltyVars => LoyaltyInv'
    BY DEF loyaltyVars, LoyaltyInv, LoyaltyTypeOK, PointsAreThere, BalanceIsExplained,
       ChangeIsCreditedOnce
  <2> QED
    BY <2>1, LoyaltyStep
<1> QED
  BY <1>1, <1>2, PTL DEF LoyaltySpec

-----------------------------------------------------------------------------
(* Food credits.                                                           *)

Spare(l) == l.amount - l.used

\* What the lines ls leave employee e, and what e paid.
SpareOf(ls, e) == SumFunctionOnSet([n \in Names |-> Spare(ls[n][e])], Names)
PaidOf(pd, e)  == SumFunctionOnSet([n \in Names |-> pd[n][e]], Names)

\* No line is overdrawn, and a line was not used for more than its credit was paid with.
LineIsWithin(l, p) == l.used <= l.amount /\ l.used <= p

LinesAreWithin ==
    \A n \in Names, e \in Employees : LineIsWithin(lines[n][e], paid[n][e])

\* What the lines leave an employee was granted and is not spent.
SpareIsGranted ==
    \A e \in Employees : SpareOf(lines, e) <= granted[e] - PaidOf(paid, e) + refunded[e]

\* An invoice that stands and was not put back beside another.
Stands(v) == invoice[v].state \in {"draft", "posted"} /\ v \notin doubled

OnFile(v) == invoice[v].state # "none"

\* An invoice charges no more than was paid with its credit, and is the only one that stands
\* for it.
BillsAreApart ==
    /\ \A v \in Invoices : OnFile(v) =>
          /\ invoice[v].food \in Names
          /\ \A e \in Employees : invoice[v].charge[e] <= paid[invoice[v].food][e]
    /\ \A v, w \in Invoices : Stands(v) /\ Stands(w) /\ invoice[v].food = invoice[w].food => v = w

FoodIInv == FoodTypeOK /\ LinesAreWithin /\ SpareIsGranted /\ BillsAreApart

\* The sums of the model and those of the invariant.
LEMMA PaidByIs == \A e : PaidBy(e) = PaidOf(paid, e)
BY DEF PaidBy, PaidOf

LEMMA FoodSumsAreInt ==
    ASSUME NEW e \in Employees
    PROVE  /\ \A ls \in [Names -> [Employees -> CreditLine]] : SpareOf(ls, e) \in Int
           /\ \A pd \in [Names -> [Employees -> Nat]] : PaidOf(pd, e) \in Nat
<1>1. ASSUME NEW ls \in [Names -> [Employees -> CreditLine]] PROVE SpareOf(ls, e) \in Int
  <2> DEFINE f == [n \in Names |-> Spare(ls[n][e])]
  <2>1. \A n \in Names : f[n] \in Int
    BY DEF Spare, CreditLine
  <2> HIDE DEF f
  <2>2. SumFunctionOnSet(f, Names) \in Int
    BY <2>1, FoodAssumption, SumType
  <2> QED
    BY <2>2 DEF SpareOf, f
<1>2. ASSUME NEW pd \in [Names -> [Employees -> Nat]] PROVE PaidOf(pd, e) \in Nat
  <2> DEFINE f == [n \in Names |-> pd[n][e]]
  <2>1. \A n \in Names : f[n] \in Nat
    OBVIOUS
  <2> HIDE DEF f
  <2>2. SumFunctionOnSet(f, Names) \in Nat
    BY <2>1, FoodAssumption, SumNatural
  <2> QED
    BY <2>2 DEF PaidOf, f
<1> QED
  BY <1>1, <1>2

\* From ls to new, only the line of n, or the payments with it, change for e.
OnlyIn(n, e, ls, new) == \A m \in Names \ {n} : new[m][e] = ls[m][e]

SpareMoves(n, e, ls, new) ==
    SpareOf(new, e) = SpareOf(ls, e) - Spare(ls[n][e]) + Spare(new[n][e])

PaidMoves(n, e, pd, new) == PaidOf(new, e) = PaidOf(pd, e) - pd[n][e] + new[n][e]

\* One line changes what is left by its own part.
LEMMA SpareChange ==
    ASSUME NEW n \in Names, NEW e \in Employees, NEW ls, NEW new,
           ls \in [Names -> [Employees -> CreditLine]],
           new \in [Names -> [Employees -> CreditLine]],
           OnlyIn(n, e, ls, new)
    PROVE  SpareMoves(n, e, ls, new)
<1> DEFINE f == [m \in Names |-> Spare(ls[m][e])]
           g == [m \in Names |-> Spare(new[m][e])]
<1>1. \A m \in Names : f[m] \in Int /\ g[m] \in Int
  BY DEF Spare, CreditLine
<1>2. \A m \in Names \ {n} : f[m] = g[m]
  BY DEF OnlyIn
<1>3. Share(f, Names, n) = Spare(ls[n][e]) /\ Share(g, Names, n) = Spare(new[n][e])
  BY DEF Share
<1>4. SpareOf(ls, e) = SumFunctionOnSet(f, Names) /\ SpareOf(new, e) = SumFunctionOnSet(g, Names)
  BY DEF SpareOf
<1> HIDE DEF f, g
<1> QED
  BY <1>1, <1>2, <1>3, <1>4, FoodAssumption, SumChange DEF SpareMoves

\* So does one payment.
LEMMA PaidChange ==
    ASSUME NEW n \in Names, NEW e \in Employees, NEW pd, NEW new,
           pd \in [Names -> [Employees -> Nat]], new \in [Names -> [Employees -> Nat]],
           OnlyIn(n, e, pd, new)
    PROVE  PaidMoves(n, e, pd, new)
<1> DEFINE f == [m \in Names |-> pd[m][e]]
           g == [m \in Names |-> new[m][e]]
<1>1. \A m \in Names : f[m] \in Int /\ g[m] \in Int
  OBVIOUS
<1>2. \A m \in Names \ {n} : f[m] = g[m]
  BY DEF OnlyIn
<1>3. Share(f, Names, n) = pd[n][e] /\ Share(g, Names, n) = new[n][e]
  BY DEF Share
<1>4. PaidOf(pd, e) = SumFunctionOnSet(f, Names) /\ PaidOf(new, e) = SumFunctionOnSet(g, Names)
  BY DEF PaidOf
<1> HIDE DEF f, g
<1> QED
  BY <1>1, <1>2, <1>3, <1>4, FoodAssumption, SumChange DEF PaidMoves

\* The same lines, or payments, of an employee leave, or are, the same.
LEMMA SameLines ==
    ASSUME NEW ls, NEW new, NEW e, \A n \in Names : new[n][e] = ls[n][e]
    PROVE  SpareOf(new, e) = SpareOf(ls, e)
<1>1. [n \in Names |-> Spare(new[n][e])] = [n \in Names |-> Spare(ls[n][e])]
  OBVIOUS
<1> QED
  BY <1>1 DEF SpareOf

LEMMA SamePayments ==
    ASSUME NEW pd, NEW new, NEW e, \A n \in Names : new[n][e] = pd[n][e]
    PROVE  PaidOf(new, e) = PaidOf(pd, e)
<1>1. [n \in Names |-> new[n][e]] = [n \in Names |-> pd[n][e]]
  OBVIOUS
<1> QED
  BY <1>1 DEF PaidOf

\* The properties follow.
LEMMA FoodFollows == FoodIInv => FoodInv
<1> SUFFICES ASSUME FoodIInv PROVE FoodInv
  OBVIOUS
<1> USE DEF FoodIInv
<1>1. PaidIsGranted
  <2> SUFFICES ASSUME NEW e \in Employees PROVE PaidBy(e) - refunded[e] <= granted[e]
    BY DEF PaidIsGranted
  <2> DEFINE f == [n \in Names |-> Spare(lines[n][e])]
  <2>1. \A n \in Names : f[n] \in Nat
    BY DEF Spare, LinesAreWithin, LineIsWithin, FoodTypeOK, CreditLine
  <2>2. SumFunctionOnSet(f, Names) = SpareOf(lines, e)
    BY DEF SpareOf
  <2> HIDE DEF f
  <2>3. SpareOf(lines, e) \in Nat
    BY <2>1, <2>2, FoodAssumption, SumNatural
  <2>4. PaidOf(paid, e) \in Nat /\ refunded[e] \in Nat /\ granted[e] \in Nat
    BY FoodSumsAreInt DEF FoodTypeOK
  <2>5. SpareOf(lines, e) <= granted[e] - PaidOf(paid, e) + refunded[e]
    BY DEF SpareIsGranted
  <2> QED
    BY <2>3, <2>4, <2>5, PaidByIs
<1>2. BilledIsPaid
  <2> SUFFICES ASSUME NEW e \in Employees
               PROVE  SumFunctionOnSet([v \in Invoices |-> invoice[v].charge[e]],
                                       Standing \ doubled) <= PaidBy(e)
    BY DEF BilledIsPaid
  <2> DEFINE f == [v \in Invoices |-> invoice[v].charge[e]]
             g == [n \in Names |-> paid[n][e]]
             S == Standing \ doubled
             m == [v \in S |-> invoice[v].food]
  <2>0. S \subseteq Invoices /\ \A v \in S : Stands(v) /\ OnFile(v)
    BY DEF Standing, Stands, OnFile
  <2>1. m \in [S -> Names]
    BY <2>0 DEF BillsAreApart
  <2>2. \A v \in S : f[v] \in Int /\ f[v] <= g[m[v]]
    BY <2>0 DEF BillsAreApart, FoodTypeOK, Invoice
  <2>3. \A v, w \in S : m[v] = m[w] => v = w
    BY <2>0 DEF BillsAreApart
  <2>4. \A n \in Names : g[n] \in Nat
    BY DEF FoodTypeOK
  <2>5. IsFiniteSet(S) /\ IsFiniteSet(Names)
    BY <2>0, FoodAssumption, FS_Subset
  <2>6. PaidBy(e) = SumFunctionOnSet(g, Names)
    BY DEF PaidBy
  <2> HIDE DEF f, g, S, m
  <2>7. SumFunctionOnSet(f, S) <= SumFunctionOnSet(g, Names)
    BY <2>1, <2>2, <2>3, <2>4, <2>5, SumCovered
  <2> QED
    BY <2>6, <2>7 DEF f, S
<1> QED
  BY <1>1, <1>2 DEF FoodInv

-----------------------------------------------------------------------------
\* What a credit's new lines leave of the invariant.
LEMMA LinesCreated ==
    ASSUME FoodIInv, NEW n \in Names, CreateLines(n), credit' \in [Names -> Credit],
           made' \subseteq Names \X Names,
           UNCHANGED <<amountFood, staff, invoice, doubled, paid, refunded>>
    PROVE  FoodIInv'
<1> USE FoodAssumption DEF FoodIInv
<1>1. amountFood \in Nat /\ NewLine \in CreditLine /\ NoLine \in CreditLine
  BY DEF FoodTypeOK, NewLine, NoLine, CreditLine
<1>2. \A m \in Names, e \in Employees :
         lines'[m][e] = IF m = n THEN IF e \in staff THEN NewLine ELSE NoLine ELSE lines[m][e]
  BY DEF CreateLines, FoodTypeOK
<1>3. lines' \in [Names -> [Employees -> CreditLine]]
  <2>1. [e \in Employees |-> IF e \in staff THEN NewLine ELSE NoLine] \in [Employees -> CreditLine]
    BY <1>1
  <2> QED
    BY <2>1 DEF CreateLines, FoodTypeOK
<1>4. granted' \in [Employees -> Nat]
  BY <1>1 DEF CreateLines, FoodTypeOK
<1>5. lined' \subseteq Names \X Names
  BY DEF CreateLines, WithLast, FoodTypeOK
<1>6. FoodTypeOK'
  BY <1>3, <1>4, <1>5 DEF FoodTypeOK
<1>7. LinesAreWithin'
  <2> SUFFICES ASSUME NEW m \in Names, NEW e \in Employees
               PROVE  LineIsWithin(lines'[m][e], paid[m][e])
    BY DEF LinesAreWithin
  <2>1. paid[m][e] \in Nat /\ LineIsWithin(lines[m][e], paid[m][e])
    BY DEF FoodTypeOK, LinesAreWithin
  <2>2. LineIsWithin(NewLine, paid[m][e]) /\ LineIsWithin(NoLine, paid[m][e])
    BY <1>1, <2>1 DEF LineIsWithin, NewLine, NoLine
  <2> QED
    BY <1>2, <2>1, <2>2
<1>8. SpareIsGranted'
  <2> SUFFICES ASSUME NEW e \in Employees
               PROVE  SpareOf(lines', e) <= granted'[e] - PaidOf(paid, e) + refunded[e]
    BY DEF SpareIsGranted, SpareOf, PaidOf
  <2> DEFINE grant == IF e \in staff THEN amountFood ELSE 0
  <2>1. SpareOf(lines', e) = SpareOf(lines, e) - Spare(lines[n][e]) + Spare(lines'[n][e])
    <3>1. OnlyIn(n, e, lines, lines')
      BY <1>2 DEF OnlyIn
    <3>2. lines \in [Names -> [Employees -> CreditLine]]
      BY DEF FoodTypeOK
    <3>3. SpareMoves(n, e, lines, lines')
      BY <1>3, <3>1, <3>2, SpareChange
    <3> QED
      BY <3>3 DEF SpareMoves
  <2>2. Spare(lines'[n][e]) = grant
    BY <1>1, <1>2 DEF Spare, NewLine, NoLine
  <2>3. Spare(lines[n][e]) \in Int /\ Spare(lines[n][e]) >= 0
    BY DEF Spare, LinesAreWithin, LineIsWithin, FoodTypeOK, CreditLine
  <2>4. granted'[e] = granted[e] + grant
    BY DEF CreateLines
  <2>5. /\ SpareOf(lines, e) \in Int /\ PaidOf(paid, e) \in Int
        /\ refunded[e] \in Int /\ granted[e] \in Int
        /\ SpareOf(lines, e) <= granted[e] - PaidOf(paid, e) + refunded[e]
    BY FoodSumsAreInt DEF FoodTypeOK, SpareIsGranted
  <2>6. grant \in Int
    BY <1>1
  <2> HIDE DEF grant
  <2> QED
    BY <2>1, <2>2, <2>3, <2>4, <2>5, <2>6
<1>9. BillsAreApart'
  BY DEF BillsAreApart, Stands, OnFile
<1> QED
  BY <1>6, <1>7, <1>8, <1>9

\* Every handler keeps the invariant of food credits.
LEMMA FoodStep ==
    ASSUME FoodIInv, FoodNext
    PROVE  FoodIInv'
<1> USE FoodAssumption DEF FoodIInv
<1>1. ASSUME NEW n \in Names, CreateCredit(n) PROVE FoodIInv'
  <2>1. credit' \in [Names -> Credit]
    BY <1>1 DEF CreateCredit, FoodTypeOK, Credit, CreditStates
  <2>2. made' \subseteq Names \X Names
    BY <1>1 DEF CreateCredit, WithLast, FoodTypeOK
  <2> QED
    BY <1>1, <2>1, <2>2, LinesCreated DEF CreateCredit
<1>2. CASE GenerateMonth
  BY <1>1, <1>2 DEF GenerateMonth
<1>3. ASSUME NEW n \in Names, GenerateCredit(n) PROVE FoodIInv'
  <2>1. CASE CreateCredit(n)
    BY <1>1, <2>1
  <2>2. CASE /\ CreateLines(n)
             /\ UNCHANGED <<amountFood, staff, credit, made, invoice, doubled, paid, refunded>>
    BY <2>2, LinesCreated DEF FoodTypeOK
  <2> QED
    BY <1>3, <2>1, <2>2 DEF GenerateCredit
<1>4. ASSUME credit' \in [Names -> Credit], amountFood' \in Grants,
             UNCHANGED <<staff, made, lines, lined, invoice, doubled, paid, refunded, granted>>
      PROVE  FoodIInv'
  BY <1>4 DEF FoodTypeOK, LinesAreWithin, SpareIsGranted, SpareOf, PaidOf, BillsAreApart, Stands, OnFile
<1>5. ASSUME NEW n \in Names, StartCredit(n) \/ CloseCredit(n) \/ FinishCredit(n)
      PROVE  FoodIInv'
  <2>1. PICK state \in {"in_progress", "close", "done"} : SetCredit(n, state)
    BY <1>5 DEF StartCredit, CloseCredit, FinishCredit
  <2>2. credit' \in [Names -> Credit]
    BY <2>1 DEF SetCredit, FoodTypeOK, Credit, CreditStates
  <2> QED
    BY <1>4, <2>1, <2>2 DEF SetCredit, FoodTypeOK
<1>6. CASE ChangeGrant
  BY <1>4, <1>6 DEF ChangeGrant, FoodTypeOK
<1>7. ASSUME lines' \in [Names -> [Employees -> CreditLine]],
             \A n \in Names, o \in Employees : lines'[n][o] \in {NoLine, lines[n][o]},
             staff' \subseteq Employees, credit' \in [Names -> Credit],
             UNCHANGED <<amountFood, made, lined, invoice, doubled, paid, refunded, granted>>
      PROVE  FoodIInv'
  <2>1. LinesAreWithin'
    <3> SUFFICES ASSUME NEW n \in Names, NEW o \in Employees
                 PROVE  LineIsWithin(lines'[n][o], paid[n][o])
      BY <1>7 DEF LinesAreWithin
    <3>1. paid[n][o] \in Nat /\ LineIsWithin(lines[n][o], paid[n][o])
      BY DEF FoodTypeOK, LinesAreWithin
    <3>2. LineIsWithin(NoLine, paid[n][o])
      BY <3>1 DEF LineIsWithin, NoLine
    <3> QED
      BY <1>7, <3>1, <3>2
  <2>2. SpareIsGranted'
    <3> SUFFICES ASSUME NEW o \in Employees
                 PROVE  SpareOf(lines', o) <= granted[o] - PaidOf(paid, o) + refunded[o]
      BY <1>7 DEF SpareIsGranted, SpareOf, PaidOf
    <3> DEFINE f == [n \in Names |-> Spare(lines[n][o])]
               g == [n \in Names |-> Spare(lines'[n][o])]
               m == [n \in Names |-> n]
    <3>1. \A n \in Names : f[n] \in Nat
      BY DEF Spare, LinesAreWithin, LineIsWithin, FoodTypeOK, CreditLine
    <3>2. \A n \in Names : g[n] = 0 \/ g[n] = f[n]
      BY <1>7 DEF Spare, NoLine
    <3>3. SumFunctionOnSet(f, Names) = SpareOf(lines, o)
          /\ SumFunctionOnSet(g, Names) = SpareOf(lines', o)
      BY DEF SpareOf
    <3> HIDE DEF f, g
    <3>4. \A n \in Names : g[n] \in Int /\ g[n] <= f[m[n]]
      BY <3>1, <3>2
    <3>5. m \in [Names -> Names] /\ \A x, y \in Names : m[x] = m[y] => x = y
      OBVIOUS
    <3> HIDE DEF m
    <3>6. SpareOf(lines', o) <= SpareOf(lines, o)
      BY <3>1, <3>3, <3>4, <3>5, SumCovered
    <3>7. /\ SpareOf(lines, o) \in Int /\ SpareOf(lines', o) \in Int /\ PaidOf(paid, o) \in Int
          /\ refunded[o] \in Int /\ granted[o] \in Int
      BY <1>7, FoodSumsAreInt DEF FoodTypeOK
    <3>8. SpareOf(lines, o) <= granted[o] - PaidOf(paid, o) + refunded[o]
      BY DEF SpareIsGranted
    <3> QED
      BY <3>6, <3>7, <3>8
  <2> QED
    BY <1>7, <2>1, <2>2 DEF FoodTypeOK, BillsAreApart, Stands, OnFile
<1>8. NoLine \in CreditLine /\ NoCredit \in Credit
  BY DEF NoLine, CreditLine, NoCredit, Credit, CreditStates
<1>9. ASSUME NEW n \in Names, DeleteCredit(n) PROVE FoodIInv'
  <2>1. lines' \in [Names -> [Employees -> CreditLine]]
    BY <1>8, <1>9 DEF DeleteCredit, FoodTypeOK
  <2>2. \A m \in Names, o \in Employees : lines'[m][o] \in {NoLine, lines[m][o]}
    BY <1>9 DEF DeleteCredit, FoodTypeOK
  <2>3. credit' \in [Names -> Credit]
    BY <1>8, <1>9 DEF DeleteCredit, FoodTypeOK
  <2>4. staff' \subseteq Employees
    BY <1>9 DEF DeleteCredit, FoodTypeOK
  <2> QED
    BY <1>7, <1>9, <2>1, <2>2, <2>3, <2>4 DEF DeleteCredit
<1>10. ASSUME NEW e \in Employees, MoveEmployee(e) PROVE FoodIInv'
  <2>1. lines' \in [Names -> [Employees -> CreditLine]]
    <3>1. CASE lines' = lines
      BY <3>1 DEF FoodTypeOK
    <3>2. CASE lines' = [n \in Names |-> [lines[n] EXCEPT ![e] = NoLine]]
      BY <1>8, <3>2 DEF FoodTypeOK
    <3> QED
      BY <1>10, <3>1, <3>2 DEF MoveEmployee
  <2>2. \A n \in Names, o \in Employees : lines'[n][o] \in {NoLine, lines[n][o]}
    BY <1>10 DEF MoveEmployee, FoodTypeOK
  <2>3. staff' \subseteq Employees /\ credit' \in [Names -> Credit]
    BY <1>10 DEF MoveEmployee, FoodTypeOK
  <2> QED
    BY <1>7, <1>10, <2>1, <2>2, <2>3 DEF MoveEmployee
<1>11. ASSUME NEW e \in Employees, PayWithCredit(e) PROVE FoodIInv'
  <2>1. PICK n \in Names, amount \in 1 .. MaxPaid - PaidBy(e) :
           /\ Affordable(lines[n][e], amount)
           /\ lines' = [lines EXCEPT ![n][e].used = @ + amount]
           /\ paid' = [paid EXCEPT ![n][e] = @ + amount]
           /\ UNCHANGED <<amountFood, staff, credit, made, lined, invoice, doubled, refunded, granted>>
    BY <1>11 DEF PayWithCredit
  <2>2. amount \in Nat /\ amount > 0
    BY <2>1
  <2> DEFINE l == lines[n][e]
             new == [on |-> l.on, amount |-> l.amount, used |-> l.used + amount]
  <2>3. l \in CreditLine /\ new \in CreditLine
    BY <2>2 DEF FoodTypeOK, CreditLine
  <2>4. [l EXCEPT !.used = l.used + amount] = new
    BY <2>3 DEF CreditLine
  <2>5. \A m \in Names, o \in Employees :
           /\ lines'[m][o] = IF m = n /\ o = e THEN new ELSE lines[m][o]
           /\ paid'[m][o] = IF m = n /\ o = e THEN paid[n][e] + amount ELSE paid[m][o]
    BY <2>1, <2>4 DEF FoodTypeOK
  <2>6. /\ lines' \in [Names -> [Employees -> CreditLine]]
        /\ paid' \in [Names -> [Employees -> Nat]]
    <3>1. [lines[n] EXCEPT ![e] = new] \in [Employees -> CreditLine]
      BY <2>3 DEF FoodTypeOK
    <3>2. lines' = [lines EXCEPT ![n] = [lines[n] EXCEPT ![e] = new]]
      BY <2>1, <2>4 DEF FoodTypeOK
    <3>3. [paid[n] EXCEPT ![e] = paid[n][e] + amount] \in [Employees -> Nat]
      BY <2>2 DEF FoodTypeOK
    <3>4. paid' = [paid EXCEPT ![n] = [paid[n] EXCEPT ![e] = paid[n][e] + amount]]
      BY <2>1 DEF FoodTypeOK
    <3> QED
      BY <3>1, <3>2, <3>3, <3>4 DEF FoodTypeOK
  <2>7. /\ l.used \in Int /\ l.amount \in Int /\ paid[n][e] \in Nat
        /\ l.used <= paid[n][e] /\ l.used + amount <= l.amount
    BY <2>1, <2>2, <2>3 DEF Affordable, CreditLine, FoodTypeOK, LinesAreWithin, LineIsWithin
  <2>8. new.used = l.used + amount /\ new.amount = l.amount
    OBVIOUS
  <2> HIDE DEF l, new
  <2>9. LineIsWithin(new, paid[n][e] + amount)
    BY <2>2, <2>7, <2>8 DEF LineIsWithin
  <2>10. LinesAreWithin'
    BY <2>5, <2>9 DEF LinesAreWithin
  <2>11. ASSUME NEW o \in Employees
         PROVE  SpareOf(lines', o) <= granted[o] - PaidOf(paid', o) + refunded[o]
    <3>1. SpareOf(lines, o) <= granted[o] - PaidOf(paid, o) + refunded[o]
      BY DEF SpareIsGranted
    <3>2. CASE o # e
      BY <2>5, <3>1, <3>2, SameLines, SamePayments
    <3>3. CASE o = e
      <4>1. SpareOf(lines', e) = SpareOf(lines, e) - Spare(l) + Spare(new)
        <5>1. OnlyIn(n, e, lines, lines')
          BY <2>5 DEF OnlyIn
        <5>2. lines \in [Names -> [Employees -> CreditLine]] /\ lines'[n][e] = new
          BY <2>5 DEF FoodTypeOK
        <5>3. SpareMoves(n, e, lines, lines')
          BY <2>6, <5>1, <5>2, SpareChange
        <5> QED
          BY <5>2, <5>3 DEF l, SpareMoves
      <4>2. PaidOf(paid', e) = PaidOf(paid, e) - paid[n][e] + (paid[n][e] + amount)
        <5>1. OnlyIn(n, e, paid, paid')
          BY <2>5 DEF OnlyIn
        <5>2. paid \in [Names -> [Employees -> Nat]] /\ paid'[n][e] = paid[n][e] + amount
          BY <2>5 DEF FoodTypeOK
        <5>3. PaidMoves(n, e, paid, paid')
          BY <2>6, <5>1, <5>2, PaidChange
        <5> QED
          BY <5>2, <5>3 DEF PaidMoves
      <4>3. Spare(new) = Spare(l) - amount /\ Spare(l) \in Int
        BY <2>2, <2>7, <2>8 DEF Spare
      <4>4. /\ SpareOf(lines, e) \in Int /\ PaidOf(paid, e) \in Int
            /\ refunded[e] \in Int /\ granted[e] \in Int
        BY FoodSumsAreInt DEF FoodTypeOK
      <4> QED
        BY <2>2, <2>7, <3>1, <3>3, <4>1, <4>2, <4>3, <4>4
    <3> QED
      BY <3>2, <3>3
  <2>12. SpareIsGranted'
    BY <2>1, <2>11 DEF SpareIsGranted, SpareOf, PaidOf
  <2>13. \A m \in Names, o \in Employees : paid[m][o] \in Nat /\ paid[m][o] <= paid'[m][o]
    BY <2>2, <2>5, <2>7 DEF FoodTypeOK
  <2>14. BillsAreApart'
    <3>1. \A v \in Invoices, o \in Employees : invoice[v].charge[o] \in Nat
      BY DEF FoodTypeOK, Invoice
    <3>2. ASSUME NEW v \in Invoices, OnFile(v), NEW o \in Employees
          PROVE  invoice[v].charge[o] <= paid'[invoice[v].food][o]
      <4>1. invoice[v].food \in Names /\ invoice[v].charge[o] <= paid[invoice[v].food][o]
        BY <3>2 DEF BillsAreApart
      <4>2. paid'[invoice[v].food][o] \in Nat
        BY <2>6, <4>1
      <4> QED
        BY <2>13, <3>1, <4>1, <4>2
    <3> QED
      BY <2>1, <3>2 DEF BillsAreApart, Stands, OnFile
  <2> QED
    BY <2>1, <2>6, <2>10, <2>12, <2>14 DEF FoodTypeOK
<1>12. ASSUME NEW e \in Employees, RefundCredit(e) PROVE FoodIInv'
  <2>1. PICK n \in Names, amount \in 1 .. PaidBy(e) - refunded[e] :
           /\ lines' = [lines EXCEPT ![n][e].used = @ - amount]
           /\ refunded' = [refunded EXCEPT ![e] = @ + amount]
           /\ UNCHANGED <<amountFood, staff, credit, made, lined, invoice, doubled, paid, granted>>
    BY <1>12 DEF RefundCredit
  <2>2. amount \in Nat /\ amount > 0
    BY <2>1
  <2> DEFINE l == lines[n][e]
             new == [on |-> l.on, amount |-> l.amount, used |-> l.used - amount]
  <2>3. l \in CreditLine /\ new \in CreditLine
    BY <2>2 DEF FoodTypeOK, CreditLine
  <2>4. [l EXCEPT !.used = l.used - amount] = new
    BY <2>3 DEF CreditLine
  <2>5. \A m \in Names, o \in Employees :
           lines'[m][o] = IF m = n /\ o = e THEN new ELSE lines[m][o]
    BY <2>1, <2>4 DEF FoodTypeOK
  <2>6. lines' \in [Names -> [Employees -> CreditLine]]
    <3>1. [lines[n] EXCEPT ![e] = new] \in [Employees -> CreditLine]
      BY <2>3 DEF FoodTypeOK
    <3>2. lines' = [lines EXCEPT ![n] = [lines[n] EXCEPT ![e] = new]]
      BY <2>1, <2>4 DEF FoodTypeOK
    <3> QED
      BY <3>1, <3>2 DEF FoodTypeOK
  <2>7. /\ l.used \in Int /\ l.amount \in Int /\ paid[n][e] \in Nat
        /\ l.used <= paid[n][e] /\ l.used <= l.amount
    BY <2>3 DEF CreditLine, FoodTypeOK, LinesAreWithin, LineIsWithin
  <2>8. new.used = l.used - amount /\ new.amount = l.amount
    OBVIOUS
  <2>9. refunded' \in [Employees -> Nat]
    BY <2>1, <2>2 DEF FoodTypeOK
  <2> HIDE DEF l, new
  <2>10. LineIsWithin(new, paid[n][e])
    BY <2>2, <2>7, <2>8 DEF LineIsWithin
  <2>11. LinesAreWithin'
    BY <2>1, <2>5, <2>10 DEF LinesAreWithin
  <2>12. ASSUME NEW o \in Employees
         PROVE  SpareOf(lines', o) <= granted[o] - PaidOf(paid, o) + refunded'[o]
    <3>1. SpareOf(lines, o) <= granted[o] - PaidOf(paid, o) + refunded[o]
      BY DEF SpareIsGranted
    <3>2. CASE o # e
      BY <2>1, <2>5, <3>1, <3>2, SameLines DEF FoodTypeOK
    <3>3. CASE o = e
      <4>1. SpareOf(lines', e) = SpareOf(lines, e) - Spare(l) + Spare(new)
        <5>1. OnlyIn(n, e, lines, lines')
          BY <2>5 DEF OnlyIn
        <5>2. lines \in [Names -> [Employees -> CreditLine]] /\ lines'[n][e] = new
          BY <2>5 DEF FoodTypeOK
        <5>3. SpareMoves(n, e, lines, lines')
          BY <2>6, <5>1, <5>2, SpareChange
        <5> QED
          BY <5>2, <5>3 DEF l, SpareMoves
      <4>2. Spare(new) = Spare(l) + amount /\ Spare(l) \in Int
        BY <2>2, <2>7, <2>8 DEF Spare
      <4>3. /\ SpareOf(lines, e) \in Int /\ PaidOf(paid, e) \in Int
            /\ refunded[e] \in Int /\ granted[e] \in Int
        BY FoodSumsAreInt DEF FoodTypeOK
      <4>4. refunded'[e] = refunded[e] + amount
        BY <2>1 DEF FoodTypeOK
      <4> QED
        BY <2>2, <3>1, <3>3, <4>1, <4>2, <4>3, <4>4
    <3> QED
      BY <3>2, <3>3
  <2>13. SpareIsGranted'
    BY <2>1, <2>12 DEF SpareIsGranted, SpareOf, PaidOf
  <2> QED
    BY <2>1, <2>6, <2>9, <2>11, <2>13 DEF FoodTypeOK, BillsAreApart, Stands, OnFile
<1>13. ASSUME credit' \in [Names -> Credit], invoice' \in [Invoices -> Invoice], BillsAreApart',
              doubled' \subseteq Invoices,
              UNCHANGED <<amountFood, staff, made, lines, lined, paid, refunded, granted>>
       PROVE  FoodIInv'
  BY <1>13 DEF FoodTypeOK, LinesAreWithin, SpareIsGranted, SpareOf, PaidOf
<1>14. CASE GenerateInvoices
  <2>1. PICK chosen \in SUBSET {n \in Names : credit[n].state \notin {"none", "draft"}} \ {{}} :
        LET billed == {n \in chosen : Billable(n)} IN
        /\ billed # {}
        /\ \E bill \in Injection(billed, {v \in Invoices : invoice[v].state = "none"}) :
              /\ invoice' = [v \in Invoices |->
                    IF \E n \in billed : bill[n] = v
                    THEN Bill(CHOOSE n \in billed : bill[n] = v)
                    ELSE invoice[v]]
              /\ \E mentioned \in SUBSET chosen :
                    LET linked == chosen \ mentioned
                        Paired(n) == {m \in billed : Rank(billed, m) = Rank(linked, n)} IN
                    /\ billed = chosen => mentioned = {}
                    /\ credit' = [n \in Names |->
                          IF n \in linked /\ Paired(n) # {}
                          THEN [credit[n] EXCEPT !.move = bill[CHOOSE m \in Paired(n) : TRUE]]
                          ELSE credit[n]]
        /\ UNCHANGED <<amountFood, staff, made, lines, lined, doubled, paid, refunded, granted>>
    BY <1>14 DEF GenerateInvoices
  <2> DEFINE billed == {n \in chosen : Billable(n)}
             free == {v \in Invoices : invoice[v].state = "none"}
  <2>2. PICK bill \in Injection(billed, free) :
          /\ invoice' = [v \in Invoices |->
                IF \E n \in billed : bill[n] = v
                THEN Bill(CHOOSE n \in billed : bill[n] = v)
                ELSE invoice[v]]
          /\ \E mentioned \in SUBSET chosen :
                LET linked == chosen \ mentioned
                    Paired(n) == {m \in billed : Rank(billed, m) = Rank(linked, n)} IN
                credit' = [n \in Names |->
                      IF n \in linked /\ Paired(n) # {}
                      THEN [credit[n] EXCEPT !.move = bill[CHOOSE m \in Paired(n) : TRUE]]
                      ELSE credit[n]]
    BY <2>1
  <2>3. /\ billed \subseteq Names /\ free \subseteq Invoices
        /\ bill \in [billed -> free]
        /\ \A m, n \in billed : bill[m] = bill[n] => m = n
        /\ \A n \in billed, v \in Invoices : ~(Stands(v) /\ invoice[v].food = n)
        /\ \A v \in free : ~OnFile(v)
    BY <2>2 DEF Injection, IsInjective, Billable, Live, Stands, OnFile
  <2>4. credit' \in [Names -> Credit]
    <3>1. PICK linked \in SUBSET chosen :
            credit' = [n \in Names |->
               IF n \in linked /\ {m \in billed : Rank(billed, m) = Rank(linked, n)} # {}
               THEN [credit[n] EXCEPT !.move =
                       bill[CHOOSE m \in {k \in billed : Rank(billed, k) = Rank(linked, n)} : TRUE]]
               ELSE credit[n]]
      <4>1. PICK mentioned \in SUBSET chosen :
                LET linked == chosen \ mentioned
                    Paired(n) == {m \in billed : Rank(billed, m) = Rank(linked, n)} IN
                credit' = [n \in Names |->
                      IF n \in linked /\ Paired(n) # {}
                      THEN [credit[n] EXCEPT !.move = bill[CHOOSE m \in Paired(n) : TRUE]]
                      ELSE credit[n]]
        BY <2>2
      <4> WITNESS chosen \ mentioned \in SUBSET chosen
      <4> QED
        BY <4>1
    <3> HIDE DEF billed, free
    <3>2. ASSUME NEW n \in Names PROVE credit'[n] \in Credit
      <4> DEFINE R == {m \in billed : Rank(billed, m) = Rank(linked, n)}
                 c == CHOOSE m \in R : TRUE
      <4>1. CASE n \in linked /\ R # {}
        <5>1. c \in billed
          BY <4>1
        <5>2. bill[c] \in Invoices
          BY <2>3, <5>1
        <5>3. credit'[n] = [credit[n] EXCEPT !.move = bill[c]]
          BY <3>1, <4>1
        <5> HIDE DEF c
        <5> QED
          BY <5>2, <5>3 DEF FoodTypeOK, Credit
      <4>2. CASE ~(n \in linked /\ R # {})
        BY <3>1, <4>2 DEF FoodTypeOK
      <4> QED
        BY <4>1, <4>2
    <3> DEFINE f == credit'
    <3>3. f = [n \in Names |-> f[n]]
      BY <3>1
    <3> HIDE DEF f
    <3>4. f \in [Names -> Credit]
      BY <3>2, <3>3 DEF f
    <3> QED
      BY <3>4 DEF f
  <2> HIDE DEF billed, free
  <2>5. ASSUME NEW n \in billed
        PROVE  invoice'[bill[n]] = Bill(n)
    <3>1. bill[n] \in Invoices
      BY <2>3
    <3>2. (CHOOSE k \in billed : bill[k] = bill[n]) = n
      BY <2>3
    <3> QED
      BY <2>2, <3>1, <3>2
  <2>6. ASSUME NEW v \in Invoices, \A n \in billed : bill[n] # v
        PROVE  invoice'[v] = invoice[v]
    BY <2>2, <2>6
  <2>7. ASSUME NEW n \in Names
        PROVE  /\ Bill(n) \in Invoice
               /\ Bill(n).state = "draft" /\ Bill(n).food = n
               /\ \A e \in Employees : Bill(n).charge[e] <= paid[n][e]
    <3>1. ASSUME NEW e \in Employees
          PROVE  Charge(n)[e] \in Nat /\ Charge(n)[e] <= paid[n][e]
      <4>1. /\ lines[n][e].used \in Int /\ paid[n][e] \in Nat
            /\ lines[n][e].used <= paid[n][e]
        BY DEF FoodTypeOK, CreditLine, LinesAreWithin, LineIsWithin
      <4> QED
        BY <4>1 DEF Charge
    <3>2. Charge(n) \in [Employees -> Nat]
      BY <3>1 DEF Charge
    <3> QED
      BY <3>1, <3>2 DEF Bill, Invoice
  <2>8. invoice' \in [Invoices -> Invoice]
    <3>1. \A v \in Invoices : invoice'[v] \in Invoice
      <4> SUFFICES ASSUME NEW v \in Invoices PROVE invoice'[v] \in Invoice
        OBVIOUS
      <4>1. CASE \E n \in billed : bill[n] = v
        <5>1. PICK n \in billed : bill[n] = v
          BY <4>1
        <5>2. n \in Names /\ invoice'[v] = Bill(n)
          BY <2>3, <2>5, <5>1
        <5> QED
          BY <2>7, <5>2
      <4>2. CASE \A n \in billed : bill[n] # v
        BY <2>6, <4>2 DEF FoodTypeOK
      <4> QED
        BY <4>1, <4>2
    <3>2. invoice' = [v \in Invoices |-> invoice'[v]]
      BY <2>2
    <3> QED
      BY <3>1, <3>2
  <2>9. ASSUME NEW v \in Invoices, OnFile(v)'
        PROVE  \/ \E n \in billed : v = bill[n]
               \/ /\ invoice'[v] = invoice[v] /\ OnFile(v)
                  /\ Stands(v)' => Stands(v)
    BY <2>1, <2>6, <2>9 DEF Stands, OnFile
  <2>10. BillsAreApart'
    <3>1. ASSUME NEW v \in Invoices, OnFile(v)'
          PROVE  /\ invoice'[v].food \in Names
                 /\ \A e \in Employees : invoice'[v].charge[e] <= paid[invoice'[v].food][e]
      <4>1. CASE \E n \in billed : v = bill[n]
        BY <2>3, <2>5, <2>7, <4>1
      <4>2. CASE invoice'[v] = invoice[v] /\ OnFile(v)
        BY <4>2 DEF BillsAreApart
      <4> QED
        BY <2>9, <3>1, <4>1, <4>2
    <3>2. ASSUME NEW v \in Invoices, NEW w \in Invoices, Stands(v)', Stands(w)',
                 invoice'[v].food = invoice'[w].food
          PROVE  v = w
      <4>0. OnFile(v)' /\ OnFile(w)'
        BY <3>2 DEF Stands, OnFile
      <4>1. CASE \E n \in billed : v = bill[n]
        <5>1. PICK n \in billed : v = bill[n]
          BY <4>1
        <5>2. invoice'[v].food = n
          BY <2>3, <2>5, <2>7, <5>1
        <5>3. CASE \E m \in billed : w = bill[m]
          BY <2>3, <2>5, <2>7, <3>2, <5>1, <5>2, <5>3
        <5>4. CASE invoice'[w] = invoice[w] /\ Stands(w)
          BY <2>3, <3>2, <5>2, <5>4
        <5> QED
          BY <2>9, <3>2, <4>0, <5>3, <5>4
      <4>2. CASE invoice'[v] = invoice[v] /\ Stands(v)
        <5>1. CASE \E m \in billed : w = bill[m]
          <6>1. PICK m \in billed : w = bill[m]
            BY <5>1
          <6>2. invoice'[w].food = m
            BY <2>3, <2>5, <2>7, <6>1
          <6> QED
            BY <2>3, <3>2, <4>2, <6>2
        <5>2. CASE invoice'[w] = invoice[w] /\ Stands(w)
          BY <3>2, <4>2, <5>2 DEF BillsAreApart
        <5> QED
          BY <2>9, <3>2, <4>0, <5>1, <5>2
      <4> QED
        BY <2>9, <3>2, <4>0, <4>1, <4>2
    <3> QED
      BY <2>1, <3>1, <3>2 DEF BillsAreApart, Stands, OnFile
  <2> QED
    BY <1>13, <2>1, <2>4, <2>8, <2>10 DEF FoodTypeOK
<1>15. ASSUME NEW v \in Invoices, ChangeInvoice(v) PROVE FoodIInv'
  <2>1. PICK s \in {"draft", "posted", "cancel"} :
          /\ <<invoice[v].state, s>> \in
                {<<"draft", "posted">>, <<"posted", "draft">>, <<"draft", "cancel">>}
          /\ invoice' = [invoice EXCEPT ![v].state = s]
          /\ doubled' = IF s = "cancel" THEN doubled \ {v} ELSE doubled
    BY <1>15 DEF ChangeInvoice
  <2>2. invoice[v].state \in {"draft", "posted"}
    BY <2>1
  <2>3. invoice' \in [Invoices -> Invoice] /\ doubled' \subseteq Invoices
    BY <2>1 DEF FoodTypeOK, Invoice
  <2>4. \A w \in Invoices :
           /\ invoice'[w].food = invoice[w].food /\ invoice'[w].charge = invoice[w].charge
           /\ Stands(w)' => Stands(w)
           /\ OnFile(w)' => OnFile(w)
    BY <2>1, <2>2 DEF FoodTypeOK, Invoice, Stands, OnFile
  <2>5. UNCHANGED <<amountFood, staff, credit, made, lines, lined, paid, refunded, granted>>
    BY <1>15 DEF ChangeInvoice
  <2>6. BillsAreApart'
    BY <2>4, <2>5 DEF BillsAreApart
  <2> QED
    BY <1>13, <2>3, <2>5, <2>6 DEF FoodTypeOK
<1>16. ASSUME NEW v \in Invoices, DeleteInvoice(v) PROVE FoodIInv'
  <2>1. NoInvoice \in Invoice
    BY DEF NoInvoice, Invoice
  <2>2. invoice' \in [Invoices -> Invoice] /\ doubled' \subseteq Invoices
    BY <1>16, <2>1 DEF DeleteInvoice, FoodTypeOK
  <2>3. credit' \in [Names -> Credit]
    BY <1>16 DEF DeleteInvoice, FoodTypeOK, Credit
  <2>4. \A w \in Invoices :
           /\ OnFile(w)' => OnFile(w) /\ invoice'[w] = invoice[w]
           /\ Stands(w)' => Stands(w)
    BY <1>16 DEF DeleteInvoice, FoodTypeOK, Stands, OnFile, NoInvoice
  <2>5. UNCHANGED <<amountFood, staff, made, lines, lined, paid, refunded, granted>>
    BY <1>16 DEF DeleteInvoice
  <2>6. \A w \in Invoices : Stands(w)' => OnFile(w)'
    BY DEF Stands, OnFile
  <2>7. BillsAreApart'
    BY <2>4, <2>5, <2>6 DEF BillsAreApart
  <2> QED
    BY <1>13, <2>2, <2>3, <2>5, <2>7
<1>17. ASSUME NEW v \in Invoices, ReviveInvoice(v) PROVE FoodIInv'
  <2>1. invoice[v].state = "cancel" /\ invoice' = [invoice EXCEPT ![v].state = "draft"]
    BY <1>17 DEF ReviveInvoice
  <2>2. /\ invoice' \in [Invoices -> Invoice]
        /\ doubled' \subseteq Invoices /\ doubled \subseteq doubled'
    <3>1. doubled' \in {doubled, doubled \union {v}}
      BY <1>17 DEF ReviveInvoice
    <3> QED
      BY <2>1, <3>1 DEF FoodTypeOK, Invoice
  <2>3. \A w \in Invoices :
           /\ invoice'[w].food = invoice[w].food /\ invoice'[w].charge = invoice[w].charge
           /\ OnFile(w)' => OnFile(w)
           /\ Stands(w)' => Stands(w) \/ w = v
    BY <2>1, <2>2 DEF FoodTypeOK, Invoice, Stands, OnFile
  \* Put back where another stands, it is marked.
  <2>4. ASSUME Stands(v)', NEW w \in Invoices \ {v}, Stands(w)',
               invoice'[w].food = invoice'[v].food
        PROVE  FALSE
    <3>1. w \in Standing \ doubled /\ invoice[w].food = invoice[v].food
      BY <2>3, <2>4 DEF Standing, Stands
    <3>2. v \in doubled'
      BY <1>17, <3>1 DEF ReviveInvoice
    <3> QED
      BY <2>4, <3>2 DEF Stands
  <2>5. UNCHANGED <<amountFood, staff, credit, made, lines, lined, paid, refunded, granted>>
    BY <1>17 DEF ReviveInvoice
  <2>6. BillsAreApart'
    BY <2>3, <2>4, <2>5 DEF BillsAreApart
  <2> QED
    BY <1>13, <2>2, <2>5, <2>6 DEF FoodTypeOK
<1> QED
  BY <1>2, <1>3, <1>5, <1>6, <1>11, <1>12, <1>14, <1>15, <1>16, <1>17, <1>9, <1>10 DEF FoodNext

\* No employee spends more than was granted, and no consumption is billed twice.
THEOREM FoodIsSpentOnce == FoodSpec => []FoodInv
<1>1. FoodInit => FoodIInv
  <2> SUFFICES ASSUME FoodInit PROVE FoodIInv
    OBVIOUS
  <2> USE FoodAssumption DEF FoodInit
  <2>1. NoLine \in CreditLine /\ NoInvoice \in Invoice /\ NoCredit \in Credit
    BY DEF NoLine, CreditLine, NoInvoice, Invoice, NoCredit, Credit, CreditStates
  <2>2. FoodTypeOK
    BY <2>1 DEF FoodTypeOK
  <2>3. LinesAreWithin
    BY DEF LinesAreWithin, LineIsWithin, NoLine
  <2>4. SpareIsGranted
    <3> SUFFICES ASSUME NEW e \in Employees
                 PROVE  SpareOf(lines, e) <= granted[e] - PaidOf(paid, e) + refunded[e]
      BY DEF SpareIsGranted
    <3>1. [n \in Names |-> Spare(lines[n][e])] = [n \in Names |-> paid[n][e]]
      BY DEF Spare, NoLine
    <3> DEFINE f == [n \in Names |-> paid[n][e]]
               m == [n \in Names |-> n]
    <3>2. \A n \in Names : f[n] = 0
      OBVIOUS
    <3> HIDE DEF f
    <3>3. SumFunctionOnSet(f, Names) = 0
      <4> DEFINE P == {T \in SUBSET Names : SumFunctionOnSet(f, T) = 0}
      <4>1. ASSUME NEW T \in SUBSET Names, \A U \in SUBSET T : U # T => U \in P
            PROVE  T \in P
        <5>1. CASE T = {}
          BY <5>1, SumEmpty
        <5>2. CASE T # {}
          <6>1. T \ {OneOf(T)} \in P /\ OneOf(T) \in Names
            BY <4>1, <5>2, FirstIn
          <6>2. SumFunctionOnSet(f, T) = f[OneOf(T)] + SumFunctionOnSet(f, T \ {OneOf(T)})
            BY <5>2, SumFirst, FS_Subset
          <6> QED
            BY <3>2, <6>1, <6>2
        <5> QED
          BY <5>1, <5>2
      <4> HIDE DEF P
      <4>2. Names \in P
        BY <4>1, SubsetInduction
      <4> QED
        BY <4>2 DEF P
    <3>4. SpareOf(lines, e) = 0 /\ PaidOf(paid, e) = 0
      BY <3>1, <3>3 DEF SpareOf, PaidOf, f
    <3> QED
      BY <3>4
  <2>5. BillsAreApart
    BY DEF BillsAreApart, Stands, OnFile, NoInvoice
  <2> QED
    BY <2>2, <2>3, <2>4, <2>5 DEF FoodIInv
<1>2. FoodIInv /\ [FoodNext]_foodVars => FoodIInv'
  <2>1. FoodIInv /\ UNCHANGED foodVars => FoodIInv'
    BY DEF foodVars, FoodIInv, FoodTypeOK, LinesAreWithin, SpareIsGranted, SpareOf, PaidOf,
       BillsAreApart, Stands, OnFile
  <2> QED
    BY <2>1, FoodStep
<1>3. FoodIInv => FoodInv
  BY FoodFollows
<1> QED
  BY <1>1, <1>2, <1>3, PTL DEF FoodSpec

-----------------------------------------------------------------------------
(* The three side by side.                                                 *)

\* Food credits, the points of the card and the consumption of the limit are right in every
\* behaviour of the three together.
THEOREM MoneyIsSound == CreditSpec => [](FoodInv /\ MoneyInv)
<1>1. CreditInit => FoodInit /\ LoyaltyInit /\ LimitInit
  BY DEF CreditInit
<1>2. [CreditNext]_creditVars
        => [FoodNext]_foodVars /\ [LoyaltyNext]_loyaltyVars /\ [LimitNext]_limitVars
  BY DEF CreditNext, creditVars
<1>3. CreditSpec => FoodSpec /\ LoyaltySpec /\ LimitSpec
  BY <1>1, <1>2, PTL DEF CreditSpec, FoodSpec, LoyaltySpec, LimitSpec
<1>4. LoyaltyInv /\ LimitInv => MoneyInv
  BY DEF MoneyInv
<1> QED
  BY <1>3, <1>4, FoodIsSpentOnce, CardIsSound, LimitIsExplained, PTL
=============================================================================
